---- MODULE Spec2Model ----
(***************************************************************************)
(* A model of bulkdraft / draftsend: the recipient deduplicator, the       *)
(* two-phase template resolver, the template-source splitter, the          *)
(* calendar builder, the HTML reducer, the message assembler, the draft    *)
(* store and the per-recipient batch loop of process_template_mode.        *)
(*                                                                         *)
(* Python strings are modelled as sequences of tokens.  An e-mail address  *)
(* is a sequence of one-character tokens; a template is a sequence of      *)
(* lexical tokens in which "{{" and "}}" are the Jinja2 print delimiters.  *)
(* Python dicts are modelled as functions whose DOMAIN is the key set.     *)
(***************************************************************************)
EXTENDS Integers, Sequences, FiniteSets, TLC

VARIABLES
    pc,                \* position of the running function
    context_records,   \* list handed to dedupe_records
    deduped_records,   \* list returned by dedupe_records
    notices,           \* "Skipping duplicate email" lines printed by dedupe_records
    summary,           \* the "Processing N unique recipients (removed M duplicates)" line
    metadata,          \* the raw metadata block
    template_content,  \* the template being rendered
    record,            \* the recipient record
    rendered_metadata, \* result of render_metadata_templates
    warnings,          \* fields for which "Warning: Failed to render" was printed
    render_context,    \* the bindings render_template rendered with
    rendered_content,  \* result of render_template
    template_file,     \* text of args.template_file
    context_file,      \* args.context and the file it names
    imap,              \* state of imap_conn
    idx,               \* position of the for loop in deduped_records
    html_content,      \* result of markdown.markdown
    plain_content,     \* result of html_to_plain_text
    folders,           \* what imap_conn.list() answers
    ics_content,       \* result of create_ics_file
    draft_email,       \* result of create_draft_email
    mailbox,           \* messages appended to the Drafts folder
    log,               \* steps taken and lines printed by process_template_mode
    error              \* the exception that ended the run, "none" if none

dedupeVars == <<context_records, deduped_records, notices, summary>>

renderVars == <<metadata, template_content, record, rendered_metadata, warnings,
                render_context, rendered_content>>

batchVars == <<template_file, context_file, imap, idx, html_content, plain_content,
               folders, ics_content, draft_email, mailbox, log, error>>

vars == <<pc, dedupeVars, renderVars, batchVars>>

(***************************************************************************)
(* Bounds of the model.                                                    *)
(***************************************************************************)
MaxRecords == 3     \* longest input list of the deduplicator
MaxEmailLen == 2    \* longest e-mail string, in characters
MaxFileLen == 4     \* longest template source, in tokens
MaxBatch == 3       \* most rows of a context file
MaxDelimiters == 3  \* most "---" in the template source of a batch
MaxHtmlLen == 4     \* most pieces of markup in a text given to the reducer
MaxBodyFragments == 1  \* most pieces of markup in the body of a draft
MaxRenders == 3     \* most resolutions of one metadata block
MaxFolders == 3     \* most lines of an answer to LIST

(***************************************************************************)
(* Strings and dicts.                                                      *)
(***************************************************************************)
EmptyStr == <<>>

EmptyDict == [k \in {} |-> EmptyStr]

\* dict.get(key, default)
Get(d, key, default) == IF key \in DOMAIN d THEN d[key] ELSE default

\* str.lower(), one token at a time
LowerTok(c) ==
    CASE c = "A" -> "a"
      [] c = "B" -> "b"
      [] c = "TRUE" -> "true"
      [] c = "FALSE" -> "false"
      [] OTHER -> c

Lower(s) == [i \in 1..Len(s) |-> LowerTok(s[i])]

\* str.upper(), one token at a time
UpperTok(c) ==
    CASE c = "a" -> "A"
      [] c = "b" -> "B"
      [] c = "true" -> "TRUE"
      [] c = "false" -> "FALSE"
      [] OTHER -> c

Upper(s) == [i \in 1..Len(s) |-> UpperTok(s[i])]

IsSpace(c) == c \in {" ", "\t", "\n"}

RECURSIVE LStrip(_)
LStrip(s) ==
    IF s = <<>> THEN s
    ELSE IF IsSpace(Head(s)) THEN LStrip(Tail(s)) ELSE s

RECURSIVE RStrip(_)
RStrip(s) ==
    IF s = <<>> THEN s
    ELSE IF IsSpace(s[Len(s)]) THEN RStrip(SubSeq(s, 1, Len(s) - 1)) ELSE s

\* str.strip()
Strip(s) == RStrip(LStrip(s))

(***************************************************************************)
(* Python values.  A string is a sequence of tokens; a scalar that is not  *)
(* a string (a YAML integer, null, date) is a sequence that starts with a  *)
(* type tag followed by the tokens of its str().                           *)
(***************************************************************************)
TypeTags == {"<int>", "<NoneType>", "<datetime>"}

\* isinstance(value, str)
IsStr(value) == value = <<>> \/ value[1] \notin TypeTags

\* str(value), as Jinja2 prints a bound value
PyStr(value) == IF IsStr(value) THEN value ELSE Tail(value)

\* d1.update(d2): the entries of d2 override those of d1
Update(d1, d2) ==
    [k \in DOMAIN d1 \cup DOMAIN d2 |-> IF k \in DOMAIN d2 THEN d2[k] ELSE d1[k]]

\* an update in which the existing entries win
UpdateKeepOld(d1, d2) ==
    [k \in DOMAIN d1 \cup DOMAIN d2 |-> IF k \in DOMAIN d1 THEN d1[k] ELSE d2[k]]

(***************************************************************************)
(* The deduplicator (draftsend/context.py).                                *)
(***************************************************************************)
\* a normalization that trims but does not lower-case
NormEmailNoLower(rec) == Strip(Get(rec, "email", EmptyStr))

\* record.get('email', '').lower().strip()
NormEmail(rec) == Strip(Lower(Get(rec, "email", EmptyStr)))

\* a loop whose elif lost its condition: a notice for every record not retained
RECURSIVE DedupeLoopNoticeAll(_, _, _, _, _)
DedupeLoopNoticeAll(records, i, seen_emails, deduped, printed) ==
    IF i > Len(records)
    THEN [raised |-> "none", deduped |-> deduped, notices |-> printed]
    ELSE IF ~IsStr(Get(records[i], "email", EmptyStr))
    THEN [raised |-> "AttributeError", deduped |-> deduped, notices |-> printed]
    ELSE LET rec == records[i]
             email == NormEmail(rec)
         IN  IF email # EmptyStr /\ email \notin seen_emails
             THEN DedupeLoopNoticeAll(records, i + 1, seen_emails \cup {email},
                                      Append(deduped, rec), printed)
             ELSE DedupeLoopNoticeAll(records, i + 1, seen_emails, deduped,
                                      Append(printed,
                                             [email |-> email,
                                              name |-> Get(rec, "first_name", <<"unknown">>)]))

\* the loop of dedupe_records: one iteration per record, carrying the set
\* seen_emails, the list deduped_records and the printed duplicate notices;
\* .lower() on an email value that is not a string raises AttributeError
RECURSIVE DedupeLoop(_, _, _, _, _)
DedupeLoop(records, i, seen_emails, deduped, printed) ==
    IF i > Len(records)
    THEN [raised |-> "none", deduped |-> deduped, notices |-> printed]
    ELSE IF ~IsStr(Get(records[i], "email", EmptyStr))
    THEN [raised |-> "AttributeError", deduped |-> deduped, notices |-> printed]
    ELSE LET rec == records[i]
             email == NormEmail(rec)
         IN  IF email # EmptyStr /\ email \notin seen_emails
             THEN DedupeLoop(records, i + 1, seen_emails \cup {email},
                             Append(deduped, rec), printed)
             ELSE IF email # EmptyStr
             THEN DedupeLoop(records, i + 1, seen_emails, deduped,
                             Append(printed,
                                    [email |-> email,
                                     name |-> Get(rec, "first_name", <<"unknown">>)]))
             ELSE DedupeLoop(records, i + 1, seen_emails, deduped, printed)

\* a deduplication that looks only at the records the include filter keeps
dedupe_records_included(records) ==
    DedupeLoop(SelectSeq(records,
                         LAMBDA r : ~("include" \in DOMAIN r
                                      /\ Upper(r["include"]) # <<"TRUE">>)),
               1, {}, <<>>, <<>>)

\* dedupe_records: the loop over all of context_records
dedupe_records(records) == DedupeLoop(records, 1, {}, <<>>, <<>>)

\* the summary line: len(deduped_records) and len(context_records) - len(deduped_records)
DedupeSummary(records, deduped) ==
    [unique |-> Len(deduped), removed |-> Len(records) - Len(deduped)]

(***************************************************************************)
(* The rendering primitive (bulkdraft/template.py, Jinja2).                *)
(***************************************************************************)
\* tokens with a lexical role in a template; every other token is an
\* identifier inside a print statement and literal text outside of one
Delimiters == {"{{", "}}", "}", "|", " "}

\* value.startswith('{{') and value.endswith('}}')
LooksUnrendered(value) ==
    /\ Len(value) >= 1
    /\ value[1] = "{{"
    /\ value[Len(value)] = "}}"

\* Jinja2 on a token sequence.  "{{" name "}}" prints the binding of name, or
\* nothing when name is undefined; "{{" name "|" d "}}" is
\* {{ name | default('d') }}; any other continuation of "{{" is a
\* TemplateSyntaxError (ok = FALSE).  Tokens outside a print statement are
\* copied to the output.
RECURSIVE JinjaRender(_, _, _, _)
JinjaRender(template, i, bindings, out) ==
    IF i > Len(template)
    THEN [ok |-> TRUE, out |-> out]
    ELSE IF template[i] # "{{"
    THEN JinjaRender(template, i + 1, bindings, Append(out, template[i]))
    ELSE IF /\ i + 2 <= Len(template)
            /\ template[i + 1] \notin Delimiters
            /\ template[i + 2] = "}}"
    THEN JinjaRender(template, i + 3, bindings,
                     out \o (IF template[i + 1] \in DOMAIN bindings
                             THEN PyStr(bindings[template[i + 1]])
                             ELSE <<>>))
    ELSE IF /\ i + 4 <= Len(template)
            /\ template[i + 1] \notin Delimiters
            /\ template[i + 2] = "|"
            /\ template[i + 3] \notin Delimiters
            /\ template[i + 4] = "}}"
    THEN JinjaRender(template, i + 5, bindings,
                     out \o (IF template[i + 1] \in DOMAIN bindings
                             THEN PyStr(bindings[template[i + 1]])
                             ELSE <<template[i + 3]>>))
    ELSE [ok |-> FALSE, out |-> <<>>]

\* the metadata entries render_template binds: resolved strings only
ResolvedEntries(meta) ==
    [k \in {key \in DOMAIN meta :
               IsStr(meta[key]) /\ ~LooksUnrendered(meta[key])}
        |-> meta[k]]

\* a binding set in which the metadata overrides the recipient context
RenderContextMetadataFirst(meta, context_data) ==
    UpdateKeepOld(ResolvedEntries(meta), context_data)

\* render_context of render_template
RenderContext(meta, context_data) ==
    Update(ResolvedEntries(meta), context_data)

\* render_template: ok = FALSE when env.from_string or template.render raises
render_template(tpl, meta, context_data) ==
    LET parsed == JinjaRender(tpl, 1, EmptyDict, <<>>)
        ctx == RenderContext(meta, context_data)
        r == JinjaRender(tpl, 1, ctx, <<>>)
    IN  IF ~parsed.ok
        THEN [ok |-> FALSE, out |-> <<>>, render_context |-> EmptyDict]
        ELSE [ok |-> r.ok, out |-> r.out, render_context |-> ctx]

(***************************************************************************)
(* The template resolver (bulkdraft/template.py).                          *)
(***************************************************************************)
\* a first pass that hands the metadata block to render_template
FirstPassWithMetadata(meta, rec) ==
    [k \in {key \in DOMAIN meta :
               ~(IsStr(meta[key]) /\ key = "subject")} |->
        IF IsStr(meta[k])
        THEN LET r == render_template(meta[k], meta, rec)
             IN  IF r.ok THEN r.out ELSE meta[k]
        ELSE meta[k]]

\* first pass of render_metadata_templates: every field but a string subject
FirstPass(meta, rec) ==
    [k \in {key \in DOMAIN meta :
               ~(IsStr(meta[key]) /\ key = "subject")} |->
        IF IsStr(meta[k])
        THEN LET r == render_template(meta[k], EmptyDict, rec)
             IN  IF r.ok THEN r.out ELSE meta[k]
        ELSE meta[k]]

FirstPassWarnings(meta, rec) ==
    {k \in DOMAIN meta :
        /\ IsStr(meta[k])
        /\ k # "subject"
        /\ ~render_template(meta[k], EmptyDict, rec).ok}

\* a second pass that reads the raw metadata block
SubjectMetadataRaw(meta, rendered_first) == meta

\* the metadata argument of the second pass: rendered_metadata of the first
SubjectMetadata(meta, rendered_first) == rendered_first

\* a resolver whose second pass has no try/except
render_metadata_templates_unguarded(meta, rec) ==
    LET first == FirstPass(meta, rec)
        hasSubject == "subject" \in DOMAIN meta /\ IsStr(meta["subject"])
        r == render_template(meta["subject"],
                             SubjectMetadata(meta, first), rec)
    IN  IF hasSubject /\ ~r.ok
        THEN [raised |-> TRUE, rendered |-> first,
              warnings |-> FirstPassWarnings(meta, rec)]
        ELSE [raised |-> FALSE,
              rendered |-> IF hasSubject
                           THEN Update(first, [k \in {"subject"} |-> r.out])
                           ELSE first,
              warnings |-> FirstPassWarnings(meta, rec)]

\* render_metadata_templates: the resolved metadata and the fields for which
\* "Warning: Failed to render" was printed; raised is the exception that
\* leaves the function, and both passes catch every Exception
render_metadata_templates(meta, rec) ==
    LET first == FirstPass(meta, rec)
        hasSubject == "subject" \in DOMAIN meta /\ IsStr(meta["subject"])
        r == render_template(meta["subject"],
                             SubjectMetadata(meta, first), rec)
    IN  [raised |-> FALSE,
         rendered |-> IF hasSubject
                      THEN Update(first,
                                  [k \in {"subject"} |->
                                      IF r.ok THEN r.out ELSE meta["subject"]])
                      ELSE first,
         warnings |-> FirstPassWarnings(meta, rec)
                      \cup (IF hasSubject /\ ~r.ok THEN {"subject"} ELSE {})]

(***************************************************************************)
(* The template source (bulkdraft/template.py, load_content).              *)
(***************************************************************************)
\* position of the first sep in s at or after i, 0 when there is none
RECURSIVE Find(_, _, _)
Find(s, sep, i) ==
    IF i > Len(s) THEN 0
    ELSE IF s[i] = sep THEN i ELSE Find(s, sep, i + 1)

\* a split that cuts at every occurrence of sep
RECURSIVE SplitAll(_, _)
SplitAll(s, sep) ==
    LET at == Find(s, sep, 1)
    IN  IF at = 0
        THEN <<s>>
        ELSE <<SubSeq(s, 1, at - 1)>> \o SplitAll(SubSeq(s, at + 1, Len(s)), sep)

\* str.split(sep, maxsplit): cut at the first maxsplit occurrences of sep
RECURSIVE Split(_, _, _)
Split(s, sep, maxsplit) ==
    LET at == Find(s, sep, 1)
    IN  IF maxsplit = 0 \/ at = 0
        THEN <<s>>
        ELSE <<SubSeq(s, 1, at - 1)>>
                 \o Split(SubSeq(s, at + 1, Len(s)), sep, maxsplit - 1)

\* the YAML documents of the model, each written as one token of the source
YamlDocuments ==
    [doc \in {"yaml:gala", "yaml:bad_field", "yaml:plain"} |->
        CASE doc = "yaml:gala" ->
                 [event_name |-> <<"{{", "event_name", "|", "Gala", "}}">>,
                  subject |-> <<"Re:", "{{", "event_name", "}}">>]
          [] doc = "yaml:bad_field" ->
                 [event_name |-> <<"{{", "event_name", "}">>,
                  subject |-> <<"Hello", "{{", "first_name", "}}">>]
          [] OTHER ->
                 [event_name |-> <<"Gala">>]]

\* yaml.safe_load of the front matter; text that is not one of the documents
\* is reported as a YAML error
YamlSafeLoad(yaml_part) ==
    IF Len(yaml_part) = 1 /\ yaml_part[1] \in DOMAIN YamlDocuments
    THEN [raised |-> "none", value |-> YamlDocuments[yaml_part[1]]]
    ELSE [raised |-> "YAMLError", value |-> EmptyDict]

\* a split without maxsplit
FrontMatterSplitAll(content) == SplitAll(content, "---")

\* the list content.split('---', 2) is unpacked from
FrontMatterSplit(content) == Split(content, "---", 2)

\* load_content: _, yaml_part, md_part = content.split('---', 2) raises
\* ValueError unless the split has exactly three parts
load_content(content) ==
    LET parts == FrontMatterSplit(content)
    IN  IF Len(parts) # 3
        THEN [raised |-> "ValueError: unpack", metadata |-> EmptyDict, md_part |-> <<>>]
        ELSE LET y == YamlSafeLoad(parts[2])
             IN  [raised |-> y.raised, metadata |-> y.value,
                  md_part |-> IF y.raised = "none" THEN parts[3] ELSE <<>>]

(***************************************************************************)
(* The context loader (draftsend/context.py, load_context_file).           *)
(***************************************************************************)
\* context_file is [given, exists, ext, is_list, data]: whether --context or
\* --csv was passed, whether the file exists, its extension, and its parsed
\* content (for YAML, whether the document is a list)
load_context_file(file) ==
    IF ~file.given \/ ~file.exists
    THEN [raised |-> "none", records |-> <<>>]
    ELSE IF Lower(<<file.ext>>) = <<".csv">>
    THEN [raised |-> "none", records |-> file.data]
    ELSE IF Lower(<<file.ext>>)[1] \in {".yml", ".yaml"}
    THEN [raised |-> "none",
          records |-> IF file.is_list THEN file.data ELSE <<file.data[1]>>]
    ELSE [raised |-> "ValueError: unsupported format", records |-> <<>>]

(***************************************************************************)
(* Calendar, markdown and message assembly, as far as the batch loop uses  *)
(* them (bulkdraft/calendar.py, bulkdraft/email_builder.py).               *)
(***************************************************************************)
\* the zones pytz.timezone knows, with their offset from UTC in hours (the
\* standard-time offset, which is the one in force on the dates of the model)
UtcOffset == [tz \in {"UTC", "Europe/Paris", "America/New_York"} |->
                 CASE tz = "UTC" -> 0
                   [] tz = "Europe/Paris" -> 1
                   [] OTHER -> 0 - 5]

KnownTimezones == {<<tz>> : tz \in DOMAIN UtcOffset}

\* literals that datetime.strptime(..., '%Y-%m-%d %H:%M:%S') parses, with the
\* naive datetime it returns (day of December 2023, hour, minute)
Strptime ==
    [lit \in {"2023-12-01 10:00:00", "2023-12-01 23:30:00"} |->
        IF lit = "2023-12-01 10:00:00"
        THEN [day |-> 1, hour |-> 10, minute |-> 0]
        ELSE [day |-> 1, hour |-> 23, minute |-> 30]]

ParsableDates == {<<lit>> : lit \in DOMAIN Strptime}

\* values datetime.now() returns
Clock == {[day |-> 15, hour |-> 9, minute |-> 15],
          [day |-> 31, hour |-> 23, minute |-> 59]}

\* an aware datetime: wall-clock fields and the zone they are read in
Aware(day, hour, minute, tz) ==
    [day |-> day, hour |-> hour, minute |-> minute, tzinfo |-> tz]

\* the naive datetime taken as UTC and converted to the zone (astimezone)
LocalizeConverting(tz, naive) ==
    LET h == naive.hour + UtcOffset[tz]
    IN  Aware(naive.day + (IF h >= 24 THEN 1 ELSE IF h < 0 THEN 0 - 1 ELSE 0),
              (h + 24) % 24, naive.minute, tz)

\* local_tz.localize(naive_datetime): the zone is attached to the naive
\* datetime, whose fields stay as they are
Localize(tz, naive) == Aware(naive.day, naive.hour, naive.minute, tz)

\* one content line of the serialized calendar: its name, its text value and,
\* for DTSTART, the datetime it carries
NoTime == Aware(0, 0, 0, "")

Line(name, text, at) == [name |-> name, text |-> text, at |-> at]

\* cal.serialize() for a calendar holding the events given
RECURSIVE SerializeEvents(_)
SerializeEvents(events) ==
    IF events = <<>>
    THEN <<>>
    ELSE <<Line("BEGIN:VEVENT", <<>>, NoTime),
           Line("DTSTART", <<>>, events[1].begin),
           Line("SUMMARY", events[1].name, NoTime),
           Line("LOCATION", events[1].location, NoTime),
           Line("UID", <<"<uid>">>, NoTime),
           Line("END:VEVENT", <<>>, NoTime)>>
         \o SerializeEvents(Tail(events))

Serialize(events) ==
    <<Line("BEGIN:VCALENDAR", <<>>, NoTime),
      Line("VERSION", <<"2.0">>, NoTime),
      Line("PRODID", <<"ics.py">>, NoTime)>>
    \o SerializeEvents(events)
    \o <<Line("END:VCALENDAR", <<>>, NoTime)>>

\* a create_ics_file whose except clauses re-raise
create_ics_file_strict(meta, now) ==
    LET timezone_str == Get(meta, "timezone", <<"UTC">>)
        event_date_str == Get(meta, "event_date", <<"2023-12-01 10:00:00">>)
        tz_str == IF LooksUnrendered(timezone_str) THEN <<"UTC">> ELSE timezone_str
        event == [name |-> PyStr(Get(meta, "event_name", <<"Event">>)),
                  begin |-> Localize("UTC", now),
                  location |-> PyStr(Get(meta, "event_location", <<"TBD">>))]
    IN  IF ~IsStr(timezone_str)
        THEN [raised |-> "AttributeError", ics |-> <<>>, printed |-> <<>>]
        ELSE IF tz_str \notin KnownTimezones
        THEN [raised |-> "UnknownTimeZoneError", ics |-> <<>>, printed |-> <<>>]
        ELSE IF event_date_str \notin ParsableDates
        THEN [raised |-> "ValueError", ics |-> <<>>, printed |-> <<>>]
        ELSE [raised |-> "none",
              ics |-> Serialize(<<[event EXCEPT !.begin =
                                      Localize(tz_str[1], Strptime[event_date_str[1]])]>>),
              printed |-> <<>>]

\* create_ics_file: the warnings it prints and the document it returns; str
\* methods called on a value that is not a string raise
create_ics_file(meta, now) ==
    LET timezone_str == Get(meta, "timezone", <<"UTC">>)
        event_date_str == Get(meta, "event_date", <<"2023-12-01 10:00:00">>)
        unrendered == LooksUnrendered(timezone_str)
        tz_str == IF unrendered THEN <<"UTC">> ELSE timezone_str
        known == tz_str \in KnownTimezones
        local_tz == IF known THEN tz_str[1] ELSE "UTC"
        parsed == event_date_str \in ParsableDates
        naive_datetime == IF parsed THEN Strptime[event_date_str[1]] ELSE now
        tz_warnings == (IF unrendered THEN <<"Warning: Timezone not properly rendered">>
                        ELSE <<>>)
                       \o (IF known THEN <<>> ELSE <<"Warning: Unknown timezone">>)
        event == [name |-> PyStr(Get(meta, "event_name", <<"Event">>)),
                  begin |-> Localize(local_tz, naive_datetime),
                  location |-> PyStr(Get(meta, "event_location", <<"TBD">>))]
    IN  IF ~IsStr(timezone_str)
        THEN [raised |-> "AttributeError", ics |-> <<>>, printed |-> <<>>]
        ELSE IF ~IsStr(event_date_str)
        THEN [raised |-> "TypeError", ics |-> <<>>, printed |-> tz_warnings]
        ELSE [raised |-> "none",
              ics |-> Serialize(<<event>>),
              printed |-> tz_warnings
                          \o (IF parsed THEN <<>>
                              ELSE <<"Warning: Invalid date format">>)]

\* markdown.markdown(rendered_content, ...): the text as one paragraph
Markdown(text) ==
    IF text = <<>> THEN <<>> ELSE <<"<", "p", ">">> \o text \o <<"<", "/", "p", ">">>

(***************************************************************************)
(* The reducer html_to_plain_text (bulkdraft/email_builder.py).  The text  *)
(* is a sequence of characters and of words without angle brackets.        *)
(***************************************************************************)
\* s[i..] starts with w
IsPrefixAt(s, i, w) == i + Len(w) - 1 <= Len(s) /\ SubSeq(s, i, i + Len(w) - 1) = w

\* position of the first '>' at or after i, 0 when there is none
NextGt(s, i) ==
    IF \E j \in i..Len(s) : s[j] = ">"
    THEN CHOOSE j \in i..Len(s) : s[j] = ">" /\ \A k \in i..(j - 1) : s[k] # ">"
    ELSE 0

\* last position of a match starting at i, 0 when nothing matches there:
\* of a literal head (mode "exact"), of head[^>]*> (mode "star") and of
\* head[^>]+> (mode "plus")
MatchEnd(s, i, heads, mode) ==
    IF \E h \in heads : IsPrefixAt(s, i, h)
    THEN LET h == CHOOSE h \in heads : IsPrefixAt(s, i, h)
             n == i + Len(h)
             j == NextGt(s, n)
         IN  CASE mode = "exact" -> n - 1
               [] mode = "star" -> j
               [] OTHER -> IF j = n THEN 0 ELSE j
    ELSE 0

\* a re.sub with count=1: only the leftmost match is replaced
RECURSIVE ReSubFirst(_, _, _, _, _)
ReSubFirst(s, i, heads, mode, repl) ==
    IF i > Len(s)
    THEN <<>>
    ELSE LET e == MatchEnd(s, i, heads, mode)
         IN  IF e > 0
             THEN repl \o SubSeq(s, e + 1, Len(s))
             ELSE <<s[i]>> \o ReSubFirst(s, i + 1, heads, mode, repl)

\* re.sub: the matches found from left to right, none overlapping another,
\* each replaced by repl
RECURSIVE ReSub(_, _, _, _, _)
ReSub(s, i, heads, mode, repl) ==
    IF i > Len(s)
    THEN <<>>
    ELSE LET e == MatchEnd(s, i, heads, mode)
         IN  IF e > 0
             THEN repl \o ReSub(s, e + 1, heads, mode, repl)
             ELSE <<s[i]>> \o ReSub(s, i + 1, heads, mode, repl)

\* last position of a match of \n\s*\n starting at i, 0 when there is none
BlankRunEnd(s, i) ==
    IF s[i] # "\n"
    THEN 0
    ELSE LET ends == {e \in (i + 1)..Len(s) :
                         /\ s[e] = "\n"
                         /\ \A k \in i..e : IsSpace(s[k])}
         IN  IF ends = {} THEN 0 ELSE CHOOSE e \in ends : \A f \in ends : f <= e

\* re.sub(r'\n\s*\n', '\n\n', text)
RECURSIVE CollapseBlankLines(_, _)
CollapseBlankLines(s, i) ==
    IF i > Len(s)
    THEN <<>>
    ELSE LET e == BlankRunEnd(s, i)
         IN  IF e > 0
             THEN <<"\n", "\n">> \o CollapseBlankLines(s, e + 1)
             ELSE <<s[i]>> \o CollapseBlankLines(s, i + 1)

HeadingLevels == {"1", "2", "3", "4", "5", "6"}

\* the three characters the source has for the bullet
BulletGlyph == <<"U+00E2", "U+20AC", "U+00A2">>

\* the first six substitutions of html_to_plain_text
BlockTagsToNewlines(html) ==
    LET text1 == ReSub(html, 1, {<<"<", "b", "r">>}, "star", <<"\n">>)
        text2 == ReSub(text1, 1, {<<"<", "p">>}, "star", <<"\n">>)
        text3 == ReSub(text2, 1, {<<"<", "/", "p", ">">>}, "exact", <<"\n">>)
        text4 == ReSub(text3, 1, {<<"<", "h", d>> : d \in HeadingLevels}, "star", <<"\n">>)
        text5 == ReSub(text4, 1, {<<"<", "/", "h", d, ">">> : d \in HeadingLevels},
                       "exact", <<"\n">>)
    IN  ReSub(text5, 1, {<<"<", "l", "i">>}, "star", <<"\n">> \o BulletGlyph \o <<" ">>)

\* html_to_plain_text
html_to_plain_text(html) ==
    Strip(CollapseBlankLines(ReSub(BlockTagsToNewlines(html), 1, {<<"<">>}, "plus",
                                   <<>>), 1))

\* record.get('email', config.get('default_email', 'test@example.com')), for
\* a configuration without default_email
RecipientEmail(rec) == Get(rec, "email", <<"test@example.com">>)

\* rendered_metadata.get('subject', rendered_metadata.get('event_name', 'Event Invitation'))
DraftSubject(meta) == Get(meta, "subject", Get(meta, "event_name", <<"Event Invitation">>))

\* load_config(): the sender, no default_email
Config == [from_email |-> <<"me@example.com">>]

\* wrap_html_for_email: the fixed document shell around the body
wrap_html_for_email(html) ==
    <<"<!DOCTYPE html>", "<html lang=en>", "<head>", "<style>", "</style>",
      "</head>", "<body>">>
    \o html
    \o <<"</body>", "</html>">>

\* datetime.now().strftime('%Y%m%d%H%M%S')
Strftime(now) == IF now.day = 15 THEN "20231215091500" ELSE "20231231235900"

\* one header line: a name and a value, the value being the main value
\* followed by its parameters
Header(name, value) == [name |-> name, value |-> value]

\* a MIME part: its headers in the order they were added and its payload
Part(headers, payload) == [headers |-> headers, payload |-> payload]

\* part[name] = value and part.add_header(name, value): the header is
\* appended, a header of the same name that is already there stays
AddHeader(part, name, value) ==
    [part EXCEPT !.headers = Append(part.headers, Header(name, value))]

\* MIMEBase(maintype, subtype), MIMEMultipart(subtype): Content-Type and
\* MIME-Version are set by the constructor
MIMEBase(content_type) ==
    Part(<<Header("Content-Type", <<content_type>>),
           Header("MIME-Version", <<"1.0">>)>>, <<>>)

\* MIMEText(text, subtype)
MIMEText(text, subtype) ==
    Part(<<Header("Content-Type", <<subtype, "charset=us-ascii">>),
           Header("MIME-Version", <<"1.0">>),
           Header("Content-Transfer-Encoding", <<"7bit">>)>>, text)

\* container.attach(part)
Attach(container, part) == [container EXCEPT !.payload = Append(container.payload, part)]

\* an alternative container with the HTML version attached first
MsgAlternativeHtmlFirst(html) ==
    Attach(Attach(MIMEBase("multipart/alternative"),
                  MIMEText(wrap_html_for_email(html), "text/html")),
           MIMEText(html_to_plain_text(html), "text/plain"))

\* msg_alternative: the plain text version, then the HTML version
MsgAlternative(html) ==
    Attach(Attach(MIMEBase("multipart/alternative"),
                  MIMEText(html_to_plain_text(html), "text/plain")),
           MIMEText(wrap_html_for_email(html), "text/html"))

\* ics_part: the calendar as an attachment
IcsPart(ics) ==
    AddHeader(AddHeader(AddHeader([MIMEBase("text/calendar") EXCEPT !.payload = ics],
                                  "Content-Transfer-Encoding", <<"7bit">>),
                        "Content-Disposition", <<"attachment", "filename=invite.ics">>),
              "Content-Type",
              <<"text/calendar", "charset=utf-8", "method=REQUEST", "name=invite.ics">>)

\* ics_inline: the calendar as an inline part
IcsInline(ics) ==
    AddHeader(AddHeader(AddHeader([MIMEBase("text/calendar") EXCEPT !.payload = ics],
                                  "Content-Transfer-Encoding", <<"7bit">>),
                        "Content-Disposition", <<"inline">>),
              "Content-Type", <<"text/calendar", "charset=utf-8", "method=REQUEST">>)

\* the headers create_draft_email sets on the outer container, in order
MsgHeaders(config, recipient, subject, now) ==
    <<Header("From", config.from_email),
      Header("To", recipient),
      Header("Subject", subject),
      Header("Message-ID", <<"<", Strftime(now), ".", "hash(recipient)", "@fastmail>">>),
      Header("Date", <<"formatdate", Strftime(now)>>),
      Header("User-Agent", <<"bulkdraft/1.0">>),
      Header("MIME-Version", <<"1.0">>),
      Header("X-Mailer", <<"bulkdraft Python Script">>)>>

\* create_draft_email(config, recipient, subject, html_content, ics_content)
create_draft_email(config, recipient, subject, html, ics, now) ==
    LET msg == MIMEBase("multipart/mixed")
        with_headers == [msg EXCEPT !.headers =
                            msg.headers \o MsgHeaders(config, recipient, subject, now)]
    IN  Attach(Attach(Attach(with_headers, MsgAlternative(html)), IcsPart(ics)),
               IcsInline(ics))

\* no message assembled yet
NoMessage == Part(<<>>, <<>>)

(***************************************************************************)
(* The Draft Store (bulkdraft/imap_client.py).                             *)
(***************************************************************************)
\* answers of imap_connection.list(): it raises, or returns a status and
\* the folder lines
ListResponse(status, lines) == [status |-> status, lines |-> lines]

\* no connection to list folders on
NoListing == ListResponse("raise", <<>>)

\* a folder line: flags, delimiter and name, the name quoted or not
FolderLine(name, quoted) ==
    IF quoted
    THEN <<"(\\HasNoChildren)", " ", "\"", "/", "\"", " ", "\"">> \o name \o <<"\"">>
    ELSE <<"(\\HasNoChildren)", " ", "/", " ">> \o name


\* a folder line as RFC 3501 servers send it: the delimiter quoted, the name
\* an atom
FolderLineAtom(delimiter, name) ==
    <<"(\\HasNoChildren)", " ", "\"", delimiter, "\"", " ">> \o name

\* str.lower() on the words of a folder name
LowerWord(w) ==
    CASE w = "Draft" -> "draft"
      [] w = "DRAFT" -> "draft"
      [] w = "Brouillon" -> "brouillon"
      [] w = "INBOX" -> "inbox"
      [] OTHER -> w

DraftNames == {"draft", "brouillon", "bozza"}

\* folder_info.split('"')[-2] if '"' in folder_info else folder_info.split()[-1]
FolderName(folder_info) ==
    IF \E i \in 1..Len(folder_info) : folder_info[i] = "\""
    THEN LET parts == Split(folder_info, "\"", Len(folder_info))
         IN  parts[Len(parts) - 1]
    ELSE LET words == SelectSeq(Split(folder_info, " ", Len(folder_info)),
                                LAMBDA w : w # <<>>)
         IN  words[Len(words)]

\* any(draft_name in folder_name.lower() for draft_name in [...])
IsDraftsName(folder_name) ==
    \E i \in 1..Len(folder_name) : LowerWord(folder_name[i]) \in DraftNames

\* the for loop of find_drafts_folder over the decoded folder lines: a line
\* without quote and without word has no last word, and the IndexError is
\* caught like any other exception
RECURSIVE FoldersLoop(_, _)
FoldersLoop(lines, i) ==
    IF i > Len(lines)
    THEN [folder |-> <<"Drafts">>, printed |-> <<>>]
    ELSE IF \A k \in 1..Len(lines[i]) : lines[i][k] = " "
    THEN [folder |-> <<"Drafts">>, printed |-> <<"Warning: Could not list folders">>]
    ELSE IF IsDraftsName(FolderName(lines[i]))
    THEN [folder |-> FolderName(lines[i]), printed |-> <<"Found Drafts folder">>]
    ELSE FoldersLoop(lines, i + 1)

\* find_drafts_folder: the first listed folder whose name holds one of the
\* draft names, 'Drafts' when there is none, when the status is not OK and
\* when listing, decoding or reading a line raises
find_drafts_folder(response) ==
    IF response.status = "raise"
    THEN [folder |-> <<"Drafts">>, printed |-> <<"Warning: Could not list folders">>]
    ELSE IF response.status # "OK"
    THEN [folder |-> <<"Drafts">>, printed |-> <<>>]
    ELSE IF \E i \in 1..Len(response.lines) : ~IsStr(response.lines[i])
    THEN [folder |-> <<"Drafts">>, printed |-> <<"Warning: Could not list folders">>]
    ELSE FoldersLoop(response.lines, 1)

AppendOutcomes == {"OK", "NO", "raise"}

DraftFlags == <<"\\Draft", "\\Seen">>

\* one call on the connection: the command, the recipient it was made for,
\* its arguments and its result
Call(cmd, i, folder, flags, res) ==
    [op |-> cmd, i |-> i, res |-> res, folder |-> folder, flags |-> flags]

\* a report that says saved whatever the append did
SaveReportAlwaysSaved(outcome) == "Draft saved"

\* the line save_draft_to_imap prints for the result of the append
SaveReport(outcome) ==
    CASE outcome = "OK" -> "Draft saved"
      [] outcome = "NO" -> "Failed to save draft"
      [] OTHER -> "Error saving draft"

\* a save_draft_to_imap that lets a failed append leave the function
save_draft_to_imap_raising(response, outcome, drafts, message, i) ==
    LET found == find_drafts_folder(response)
    IN  [raised |-> IF outcome = "OK" THEN "none" ELSE "IMAPError",
         drafts |-> IF outcome = "OK"
                    THEN Append(drafts, [folder |-> found.folder, flags |-> DraftFlags,
                                         message |-> message])
                    ELSE drafts,
         calls |-> <<Call("imap.list", i, <<>>, <<>>, response.status),
                     Call("imap.append", i, found.folder, DraftFlags, outcome)>>,
         printed |-> found.printed
                     \o (IF outcome = "OK" THEN <<"Draft saved">> ELSE <<>>)]

\* save_draft_to_imap: the folder is looked up, then one append; its result
\* is printed, a non-OK status and an exception as failures, and the function
\* returns in all three cases
save_draft_to_imap(response, outcome, drafts, message, i) ==
    LET found == find_drafts_folder(response)
    IN  [raised |-> "none",
         drafts |-> IF outcome = "OK"
                    THEN Append(drafts, [folder |-> found.folder, flags |-> DraftFlags,
                                         message |-> message])
                    ELSE drafts,
         calls |-> <<Call("imap.list", i, <<>>, <<>>, response.status),
                     Call("imap.append", i, found.folder, DraftFlags, outcome)>>,
         printed |-> Append(found.printed, SaveReport(outcome))]


\* getattr(value, 'utils'): a str, an int, None and a datetime have no
\* attribute of that name
HasUtils(value) == ~IsStr(value) /\ value[1] \notin {"<int>", "<NoneType>", "<datetime>"}

\* message_content.replace(chr(10), '<br>')
RECURSIVE NewlinesToBr(_)
NewlinesToBr(s) ==
    IF s = <<>>
    THEN <<>>
    ELSE (IF Head(s) = "\n" THEN <<"<", "b", "r", ">">> ELSE <<Head(s)>>)
         \o NewlinesToBr(Tail(s))

\* msg of test_imap_settings: an alternative container with the headers of a
\* sendable draft, the plain text version and the HTML version
TestMessage(config, email, subject, message_content, now) ==
    LET msg == MIMEBase("multipart/alternative")
        with_headers == [msg EXCEPT !.headers =
                            msg.headers \o MsgHeaders(config, email, subject, now)]
        html_message == <<"<", "p", ">">> \o NewlinesToBr(message_content)
                        \o <<"<", "/", "p", ">">>
    IN  Attach(Attach(with_headers, MIMEText(message_content, "text/plain")),
               MIMEText(wrap_html_for_email(html_message), "text/html"))

\* the statements of test_imap_settings between the login and the end of the
\* try block.  The parameter email hides the module email, so that
\* email.utils.formatdate is looked up on the argument and raises when the
\* argument has no attribute utils; otherwise the message is built, saved,
\* the connection is logged out and the three success lines are printed
test_imap_settings_draft(config, email, subject, message_content, response, outcome, drafts, now) ==
    IF ~HasUtils(email)
    THEN [raised |-> "AttributeError", message |-> NoMessage, drafts |-> drafts,
          calls |-> <<>>, printed |-> <<>>, logout |-> FALSE]
    ELSE LET msg == TestMessage(config, email, subject, message_content, now)
             r == save_draft_to_imap(response, outcome, drafts, msg, 0)
         IN  [raised |-> r.raised, message |-> msg, drafts |-> r.drafts,
              calls |-> r.calls,
              printed |-> r.printed \o <<"Test email successfully created",
                                         "Subject", "IMAP settings are working correctly">>,
              logout |-> r.raised = "none"]

(***************************************************************************)
(* Inputs of the deduplicator.                                             *)
(***************************************************************************)
EmailChars == {"a", "A", " "}

StringsUpTo(chars, n) == UNION {[1..k -> chars] : k \in 0..n}

EmailStrings == StringsUpTo(EmailChars, MaxEmailLen)

FirstNames == {<<"John">>, <<"Jane">>}

\* records without email, with every email string, and with the email of a
\* blank YAML value or short CSV row (None) and of a YAML number
DedupeInputRecords ==
    {[first_name |-> n] : n \in FirstNames}
    \cup {[email |-> e, first_name |-> n] : e \in EmailStrings, n \in FirstNames}
    \cup {[email |-> <<"<NoneType>", "None">>, first_name |-> <<"John">>],
          [email |-> <<"<int>", "5">>, first_name |-> <<"Jane">>]}

DedupeInputs == UNION {[1..k -> DedupeInputRecords] : k \in 0..MaxRecords}

(***************************************************************************)
(* Specification SpecDedupe: one call of dedupe_records.                   *)
(***************************************************************************)
\* nothing deduplicated yet
DedupeOutputsEmpty ==
    /\ deduped_records = <<>>
    /\ notices = <<>>
    /\ summary = [unique |-> 0, removed |-> 0]

\* nothing rendered yet
RenderOutputsEmpty ==
    /\ record = EmptyDict
    /\ rendered_metadata = EmptyDict
    /\ warnings = {}
    /\ render_context = EmptyDict
    /\ rendered_content = <<>>

\* no connection, no draft and no step yet
BatchOutputsEmpty ==
    /\ imap = "none"
    /\ idx = 0
    /\ html_content = <<>>
    /\ plain_content = <<>>
    /\ ics_content = <<>>
    /\ draft_email = NoMessage
    /\ mailbox = <<>>
    /\ log = <<>>
    /\ error = "none"

\* no template source and no context source
NoFiles ==
    /\ template_file = <<>>
    /\ context_file = [given |-> FALSE, exists |-> FALSE, ext |-> "",
                       is_list |-> TRUE, data |-> <<>>]

InitDedupe ==
    /\ pc = "dedupe_call"
    /\ context_records \in DedupeInputs
    /\ DedupeOutputsEmpty
    /\ metadata = EmptyDict
    /\ template_content = <<>>
    /\ RenderOutputsEmpty
    /\ NoFiles
    /\ BatchOutputsEmpty
    /\ folders = NoListing

DedupeRecords ==
    /\ pc = "dedupe_call"
    /\ LET r == dedupe_records(context_records)
       IN  /\ notices' = r.notices
           /\ IF r.raised # "none"
              THEN /\ pc' = "dedupe_raised"
                   /\ error' = r.raised
                   /\ UNCHANGED <<deduped_records, summary>>
              ELSE /\ pc' = "dedupe_return"
                   /\ deduped_records' = r.deduped
                   /\ summary' = DedupeSummary(context_records, r.deduped)
                   /\ UNCHANGED error
    /\ UNCHANGED <<context_records, renderVars, template_file, context_file,
                   imap, idx, html_content, plain_content, folders,
                   ics_content, draft_email, mailbox, log>>

NextDedupe == DedupeRecords

SpecDedupe == InitDedupe /\ [][NextDedupe]_vars

(***************************************************************************)
(* Inputs of the renderer and the resolver.                                *)
(***************************************************************************)
MetadataKeys == {"event_name", "subject", "timezone"}

\* values of a metadata field: a literal, a template with a default, a
\* reference to a variable, two malformed templates (the second one starts
\* with "{{" and ends with "}}"), a subject that quotes another field, and
\* an integer
MetadataValues ==
    {<<"Gala">>,
     <<"{{", "event_name", "|", "Gala", "}}">>,
     <<"{{", "timezone", "}}">>,
     <<"{{", "event_name", "}">>,
     <<"{{", "}}">>,
     <<"Re:", "{{", "event_name", "}}">>,
     <<"Re:", "{{", "timezone", "}}">>,
     <<"<int>", "50">>}

DictsOver(keys, values) == UNION {[d -> values] : d \in SUBSET keys}

MetadataBlocks == DictsOver(MetadataKeys, MetadataValues)

\* recipient records: any subset of the fields, a value of event_name or
\* timezone may itself be text that looks like a marker
RenderRecords ==
    {r \in DictsOver({"event_name", "timezone", "first_name"},
                     {<<"Party">>, <<"{{", "x", "}}">>, <<"John">>}) :
        /\ "first_name" \in DOMAIN r => r["first_name"] = <<"John">>
        /\ "event_name" \in DOMAIN r => r["event_name"] # <<"John">>
        /\ "timezone" \in DOMAIN r => r["timezone"] = <<"{{", "x", "}}">>}

BodyTemplates ==
    {<<"Dear", "{{", "first_name", "|", "Participant", "}}">>,
     <<"{{", "event_name", "}}">>,
     <<"{{", "timezone", "}}">>,
     <<"{{", "subject", "}}">>,
     <<"{{", "first_name", "}">>}

(***************************************************************************)
(* Specification SpecRender: one call of render_metadata_templates or of   *)
(* render_template.                                                        *)
(***************************************************************************)
InitRender ==
    /\ pc \in {"resolve_call", "render_call"}
    /\ metadata \in MetadataBlocks
    /\ record \in RenderRecords
    /\ template_content \in (IF pc = "render_call" THEN BodyTemplates ELSE {<<>>})
    /\ rendered_metadata = EmptyDict
    /\ warnings = {}
    /\ render_context = EmptyDict
    /\ rendered_content = <<>>
    /\ context_records = <<>>
    /\ DedupeOutputsEmpty
    /\ NoFiles
    /\ BatchOutputsEmpty
    /\ folders = NoListing

RenderMetadataTemplates ==
    /\ pc = "resolve_call"
    /\ LET r == render_metadata_templates(metadata, record)
       IN  /\ rendered_metadata' = r.rendered
           /\ warnings' = r.warnings
           /\ pc' = IF r.raised THEN "resolve_raised" ELSE "resolve_return"
    /\ UNCHANGED <<metadata, template_content, record, render_context,
                   rendered_content, dedupeVars, batchVars>>

RenderTemplate ==
    /\ pc = "render_call"
    /\ LET r == render_template(template_content, metadata, record)
       IN  /\ render_context' = r.render_context
           /\ rendered_content' = r.out
           /\ pc' = IF r.ok THEN "render_return" ELSE "render_raised"
    /\ UNCHANGED <<metadata, template_content, record, rendered_metadata,
                   warnings, dedupeVars, batchVars>>

NextRender == RenderMetadataTemplates \/ RenderTemplate

SpecRender == InitRender /\ [][NextRender]_vars

(***************************************************************************)
(* Inputs of the template loader and of the batch.                         *)
(***************************************************************************)
\* template sources: any text of delimiters, one YAML document and body words
\* in which a front matter, when there is one, is the YAML document
SourceTokens == {"---", "yaml:plain", "Hello"}

TemplateSources ==
    {f \in StringsUpTo(SourceTokens, MaxFileLen) :
        Len(Split(f, "---", 2)) = 3 => Split(f, "---", 2)[2] = <<"yaml:plain">>}

GoodBody == <<"Dear", "{{", "first_name", "|", "Participant", "}}">>

BadBody == <<"Dear", "{{", "first_name", "}">>

\* a template source with n delimiters: the front matter is opened by the
\* first and closed by the second, the others are rules of the body
RECURSIVE Rules(_)
Rules(n) == IF n <= 0 THEN <<>> ELSE <<"---", "PS">> \o Rules(n - 1)

MakeTemplate(n, doc, body) ==
    CASE n = 0 -> <<doc>> \o body
      [] n = 1 -> <<"---", doc>> \o body
      [] OTHER -> <<"---", doc, "---">> \o body \o Rules(n - 2)

BatchTemplates ==
    {MakeTemplate(n, t[1], t[2]) :
        n \in 0..MaxDelimiters,
        t \in {<<"yaml:gala", GoodBody>>, <<"yaml:bad_field", GoodBody>>,
               <<"yaml:plain", BadBody>>}}

\* rows of a context file: an address, the same address in upper case with
\* include 'true', an excluded address, a row without address, the excluded
\* address again with include 'TRUE', a third address, and a row that is
\* too short to have a value in the include column
BatchRecords ==
    {[email |-> <<"a">>, first_name |-> <<"John">>],
     [email |-> <<"A">>, first_name |-> <<"Jane">>, include |-> <<"true">>],
     [email |-> <<"b">>, first_name |-> <<"Bob">>, include |-> <<"FALSE">>],
     [first_name |-> <<"Nobody">>],
     [email |-> <<"b">>, include |-> <<"TRUE">>],
     [email |-> <<"c">>, first_name |-> <<"Cy">>, include |-> <<"TRUE">>],
     [email |-> <<"d">>, first_name |-> <<"Dan">>, include |-> <<"<NoneType>", "None">>]}

BatchRows == UNION {[1..k -> BatchRecords] : k \in 0..MaxBatch}

ContextFiles ==
    {[given |-> FALSE, exists |-> FALSE, ext |-> "", is_list |-> TRUE, data |-> <<>>],
     [given |-> TRUE, exists |-> FALSE, ext |-> ".csv", is_list |-> TRUE, data |-> <<>>],
     [given |-> TRUE, exists |-> TRUE, ext |-> ".txt", is_list |-> TRUE, data |-> <<>>]}
    \cup {[given |-> TRUE, exists |-> TRUE, ext |-> ".csv", is_list |-> TRUE, data |-> d] :
             d \in BatchRows}
    \cup {[given |-> TRUE, exists |-> TRUE, ext |-> ".yaml", is_list |-> l, data |-> <<r>>] :
             l \in BOOLEAN, r \in BatchRecords}

\* answers of the server to LIST: an error, a NO, folder lines with a
\* Drafts folder (quoted, unquoted under a prefix, after a folder whose
\* name has a space), without one, the [None] of a server without
\* folders, and an empty line
FolderListings ==
    {ListResponse("raise", <<>>),
     ListResponse("NO", <<>>),
     ListResponse("OK", <<FolderLine(<<"INBOX">>, TRUE), FolderLine(<<"Draft", "s">>, TRUE)>>),
     ListResponse("OK", <<FolderLine(<<"INBOX">>, FALSE),
                          FolderLine(<<"INBOX", ".", "Brouillon", "s">>, FALSE)>>),
     ListResponse("OK", <<FolderLine(<<"My", " ", "DRAFT", "s">>, TRUE),
                          FolderLine(<<"Draft", "s">>, TRUE)>>),
     ListResponse("OK", <<FolderLine(<<"INBOX">>, TRUE), FolderLine(<<"Sent">>, TRUE)>>),
     ListResponse("OK", <<<<"<NoneType>", "None">>>>),
     ListResponse("OK", <<FolderLine(<<"INBOX">>, FALSE), <<>>>>)}

\* the servers a batch runs against
BatchListings ==
    {ListResponse("raise", <<>>),
     ListResponse("OK", <<FolderLine(<<"INBOX">>, TRUE), FolderLine(<<"Draft", "s">>, TRUE)>>)}

(***************************************************************************)
(* Specification SpecLoad: one call of load_content.                       *)
(* Specification SpecBatch: one run of process_template_mode.              *)
(***************************************************************************)
\* the statement that follows a step of process_template_mode with connection first
StepAfterConnectFirst(step) ==
    CASE step = "load_config" -> "connect"
      [] step = "connect" -> "login"
      [] step = "login" -> "load_content"
      [] step = "load_content" -> "load_context"
      [] step = "load_context" -> "dedupe"
      [] step = "dedupe" -> "for"
      [] step = "include" -> "resolve"
      [] step = "resolve" -> "render"
      [] step = "render" -> "ics"
      [] step = "ics" -> "assemble"
      [] step = "assemble" -> "append"
      [] step = "created" -> "for"
      [] OTHER -> "done"

\* the statement that follows a step of process_template_mode
StepAfter(step) ==
    CASE step = "load_config" -> "load_content"
      [] step = "load_content" -> "load_context"
      [] step = "load_context" -> "dedupe"
      [] step = "dedupe" -> "connect"
      [] step = "connect" -> "login"
      [] step = "login" -> "for"
      [] step = "include" -> "resolve"
      [] step = "resolve" -> "render"
      [] step = "render" -> "ics"
      [] step = "ics" -> "assemble"
      [] step = "assemble" -> "append"
      [] step = "created" -> "for"
      [] OTHER -> "done"

\* a loop that appends again after a failed append
AfterSaveRetry(outcome) == IF outcome = "OK" THEN "created" ELSE "append"

\* the statement that follows save_draft_to_imap, whatever the append did
AfterSave(outcome) == "created"

\* record['include'].upper() on a value that is not a string (the None of a
\* short CSV row or of a blank YAML value) raises AttributeError
IncludeRaises(rec) == "include" \in DOMAIN rec /\ ~IsStr(rec["include"])

\* 'include' in record and record['include'].upper() != 'TRUE'
Excluded(rec) == "include" \in DOMAIN rec /\ Upper(rec["include"]) # <<"TRUE">>

Event(op, i, res) == [op |-> op, i |-> i, res |-> res]

\* the lines printed, as entries of the log
PrintedEvents(lines, i) == [n \in 1..Len(lines) |-> Event("print", i, lines[n])]

InitLoad ==
    /\ pc = "load_content"
    /\ template_file \in TemplateSources
    /\ context_file = [given |-> FALSE, exists |-> FALSE, ext |-> "",
                       is_list |-> TRUE, data |-> <<>>]
    /\ context_records = <<>>
    /\ DedupeOutputsEmpty
    /\ metadata = EmptyDict
    /\ template_content = <<>>
    /\ RenderOutputsEmpty
    /\ BatchOutputsEmpty
    /\ folders = NoListing

InitBatch ==
    /\ pc = "load_config"
    /\ template_file \in BatchTemplates
    /\ context_file \in ContextFiles
    /\ context_records = <<>>
    /\ DedupeOutputsEmpty
    /\ metadata = EmptyDict
    /\ template_content = <<>>
    /\ RenderOutputsEmpty
    /\ BatchOutputsEmpty
    /\ folders \in BatchListings

\* config = load_config()
LoadConfig ==
    /\ pc = "load_config"
    /\ pc' = StepAfter(pc)
    /\ UNCHANGED <<plain_content, folders,
                   context_records, deduped_records, notices, summary,
                   metadata, template_content, record, rendered_metadata,
                   warnings, render_context, rendered_content, template_file,
                   context_file, imap, idx, html_content, ics_content,
                   draft_email, mailbox, log, error>>

\* metadata, template_content = load_content(args.template_file)
LoadContent ==
    /\ pc = "load_content"
    /\ LET r == load_content(template_file)
       IN  IF r.raised # "none"
           THEN /\ pc' = "crashed"
                /\ error' = r.raised
                /\ UNCHANGED <<metadata, template_content>>
           ELSE /\ pc' = StepAfter(pc)
                /\ metadata' = r.metadata
                /\ template_content' = r.md_part
                /\ UNCHANGED error
    /\ UNCHANGED <<plain_content, folders,
                   context_records, deduped_records, notices, summary,
                   record, rendered_metadata, warnings, render_context,
                   rendered_content, template_file, context_file, imap, idx,
                   html_content, ics_content, draft_email, mailbox, log>>

\* context_records = load_context_file(context_file) if context_file else [{}]
LoadContext ==
    /\ pc = "load_context"
    /\ LET r == IF context_file.given
                THEN load_context_file(context_file)
                ELSE [raised |-> "none", records |-> <<EmptyDict>>]
       IN  IF r.raised # "none"
           THEN /\ pc' = "crashed"
                /\ error' = r.raised
                /\ UNCHANGED context_records
           ELSE /\ pc' = StepAfter(pc)
                /\ context_records' = r.records
                /\ UNCHANGED error
    /\ UNCHANGED <<plain_content, folders,
                   deduped_records, notices, summary, metadata,
                   template_content, record, rendered_metadata, warnings,
                   render_context, rendered_content, template_file,
                   context_file, imap, idx, html_content, ics_content,
                   draft_email, mailbox, log>>

\* deduped_records = dedupe_records(context_records)
Dedupe ==
    /\ pc = "dedupe"
    /\ LET r == dedupe_records(context_records)
       IN  /\ notices' = r.notices
           /\ IF r.raised # "none"
              THEN /\ pc' = "crashed"
                   /\ error' = r.raised
                   /\ UNCHANGED <<deduped_records, summary>>
              ELSE /\ pc' = StepAfter(pc)
                   /\ deduped_records' = r.deduped
                   /\ summary' = DedupeSummary(context_records, r.deduped)
                   /\ UNCHANGED error
    /\ UNCHANGED <<plain_content, folders,
                   context_records, metadata, template_content, record,
                   rendered_metadata, warnings, render_context,
                   rendered_content, template_file, context_file, imap, idx,
                   html_content, ics_content, draft_email, mailbox, log>>

\* imap_conn = imaplib.IMAP4_SSL(...): connects or raises
Connect ==
    /\ pc = "connect"
    /\ \E ok \in BOOLEAN :
          IF ok
          THEN /\ imap' = "connected"
               /\ pc' = StepAfter(pc)
               /\ UNCHANGED error
          ELSE /\ pc' = "crashed"
               /\ error' = "OSError"
               /\ UNCHANGED imap
    /\ UNCHANGED <<plain_content, folders,
                   context_records, deduped_records, notices, summary,
                   metadata, template_content, record, rendered_metadata,
                   warnings, render_context, rendered_content, template_file,
                   context_file, idx, html_content, ics_content, draft_email,
                   mailbox, log>>

\* imap_conn.login(...): authenticates or raises
Login ==
    /\ pc = "login"
    /\ \E ok \in BOOLEAN :
          IF ok
          THEN /\ imap' = "logged_in"
               /\ pc' = StepAfter(pc)
               /\ UNCHANGED error
          ELSE /\ pc' = "crashed"
               /\ error' = "IMAP4.error"
               /\ UNCHANGED imap
    /\ UNCHANGED <<plain_content, folders,
                   context_records, deduped_records, notices, summary,
                   metadata, template_content, record, rendered_metadata,
                   warnings, render_context, rendered_content, template_file,
                   context_file, idx, html_content, ics_content, draft_email,
                   mailbox, log>>

\* for record in deduped_records: the next record, or the end of the loop
ForNext ==
    /\ pc = "for"
    /\ IF idx < Len(deduped_records)
       THEN /\ idx' = idx + 1
            /\ record' = deduped_records[idx + 1]
            /\ pc' = "include"
       ELSE /\ pc' = "logout"
            /\ UNCHANGED <<idx, record>>
    /\ UNCHANGED <<plain_content, folders,
                   context_records, deduped_records, notices, summary,
                   metadata, template_content, rendered_metadata, warnings,
                   render_context, rendered_content, template_file,
                   context_file, imap, html_content, ics_content,
                   draft_email, mailbox, log, error>>

\* the include filter: print 'Skipping ...' and continue, or go on; the
\* condition raises on an include value that is not a string
IncludeCheck ==
    /\ pc = "include"
    /\ IF IncludeRaises(record)
       THEN /\ pc' = "crashed"
            /\ error' = "AttributeError"
            /\ UNCHANGED log
       ELSE IF Excluded(record)
       THEN /\ log' = Append(log, Event("skip", idx, ""))
            /\ pc' = "for"
            /\ UNCHANGED error
       ELSE /\ pc' = StepAfter(pc)
            /\ UNCHANGED <<log, error>>
    /\ UNCHANGED <<plain_content, folders,
                   context_records, deduped_records, notices, summary,
                   metadata, template_content, record, rendered_metadata,
                   warnings, render_context, rendered_content, template_file,
                   context_file, imap, idx, html_content, ics_content,
                   draft_email, mailbox>>

\* rendered_metadata = render_metadata_templates(metadata, record)
Resolve ==
    /\ pc = "resolve"
    /\ LET r == render_metadata_templates(metadata, record)
       IN  /\ rendered_metadata' = r.rendered
           /\ warnings' = r.warnings
           /\ log' = Append(log, Event("resolve", idx, ""))
           /\ IF r.raised
              THEN pc' = "crashed" /\ error' = "Exception"
              ELSE pc' = StepAfter(pc) /\ UNCHANGED error
    /\ UNCHANGED <<plain_content, folders,
                   context_records, deduped_records, notices, summary,
                   metadata, template_content, record, render_context,
                   rendered_content, template_file, context_file, imap, idx,
                   html_content, ics_content, draft_email, mailbox>>

\* rendered_content = render_template(...); html_content = markdown.markdown(...)
RenderBody ==
    /\ pc = "render"
    /\ LET r == render_template(template_content, rendered_metadata, record)
       IN  IF ~r.ok
           THEN /\ pc' = "crashed"
                /\ error' = "TemplateSyntaxError"
                /\ UNCHANGED <<render_context, rendered_content, html_content, log>>
           ELSE /\ pc' = StepAfter(pc)
                /\ render_context' = r.render_context
                /\ rendered_content' = r.out
                /\ html_content' = Markdown(r.out)
                /\ log' = Append(log, Event("render", idx, ""))
                /\ UNCHANGED error
    /\ UNCHANGED <<plain_content, folders,
                   context_records, deduped_records, notices, summary,
                   metadata, template_content, record, rendered_metadata,
                   warnings, template_file, context_file, imap, idx,
                   ics_content, draft_email, mailbox>>

\* ics_content = create_ics_file(rendered_metadata)
BuildCalendar ==
    /\ pc = "ics"
    /\ \E now \in Clock :
       LET r == create_ics_file(rendered_metadata, now)
       IN  IF r.raised # "none"
           THEN /\ pc' = "crashed"
                /\ error' = r.raised
                /\ log' = log \o PrintedEvents(r.printed, idx)
                /\ UNCHANGED ics_content
           ELSE /\ pc' = StepAfter(pc)
                /\ ics_content' = r.ics
                /\ log' = Append(log \o PrintedEvents(r.printed, idx),
                                 Event("ics", idx, ""))
                /\ UNCHANGED error
    /\ UNCHANGED <<plain_content, folders,
                   context_records, deduped_records, notices, summary,
                   metadata, template_content, record, rendered_metadata,
                   warnings, render_context, rendered_content, template_file,
                   context_file, imap, idx, html_content, draft_email,
                   mailbox>>

\* draft_email = create_draft_email(config, recipient_email, subject, html_content, ics_content)
Assemble ==
    /\ pc = "assemble"
    /\ \E now \in Clock :
          draft_email' = create_draft_email(Config, RecipientEmail(record),
                                            DraftSubject(rendered_metadata),
                                            html_content, ics_content, now)
    /\ plain_content' = html_to_plain_text(html_content)
    /\ log' = Append(log, Event("assemble", idx, ""))
    /\ pc' = StepAfter(pc)
    /\ UNCHANGED <<folders, context_records, deduped_records, notices, summary,
                   metadata, template_content, record, rendered_metadata,
                   warnings, render_context, rendered_content, template_file,
                   context_file, imap, idx, html_content, ics_content,
                   mailbox, error>>

\* save_draft_to_imap(imap_conn, draft_email): the append returns OK, returns NO, or raises
SaveDraft ==
    /\ pc = "append"
    /\ \E outcome \in AppendOutcomes :
          LET r == save_draft_to_imap(folders, outcome, mailbox, draft_email, idx)
          IN  /\ mailbox' = r.drafts
              /\ log' = Append(log \o r.calls \o PrintedEvents(r.printed, idx),
                               Event("append", idx, outcome))
              /\ IF r.raised # "none"
                 THEN pc' = "crashed" /\ error' = r.raised
                 ELSE pc' = AfterSave(outcome) /\ UNCHANGED error
    /\ UNCHANGED <<plain_content, folders,
                   context_records, deduped_records, notices, summary,
                   metadata, template_content, record, rendered_metadata,
                   warnings, render_context, rendered_content, template_file,
                   context_file, imap, idx, html_content, ics_content,
                   draft_email>>

\* print('Draft email created for: ...')
PrintCreated ==
    /\ pc = "created"
    /\ log' = Append(log, Event("created", idx, ""))
    /\ pc' = StepAfter(pc)
    /\ UNCHANGED <<plain_content, folders,
                   context_records, deduped_records, notices, summary,
                   metadata, template_content, record, rendered_metadata,
                   warnings, render_context, rendered_content, template_file,
                   context_file, imap, idx, html_content, ics_content,
                   draft_email, mailbox, error>>

\* imap_conn.logout(); print('All draft emails have been created ...')
Logout ==
    /\ pc = "logout"
    /\ imap' = "logged_out"
    /\ log' = Append(log, Event("all_created", idx, ""))
    /\ pc' = "done"
    /\ UNCHANGED <<plain_content, folders,
                   context_records, deduped_records, notices, summary,
                   metadata, template_content, record, rendered_metadata,
                   warnings, render_context, rendered_content, template_file,
                   context_file, idx, html_content, ics_content, draft_email,
                   mailbox, error>>

NextLoad == LoadContent

SpecLoad == InitLoad /\ [][NextLoad]_vars

NextBatch ==
    \/ LoadConfig
    \/ LoadContent
    \/ LoadContext
    \/ Dedupe
    \/ Connect
    \/ Login
    \/ ForNext
    \/ IncludeCheck
    \/ Resolve
    \/ RenderBody
    \/ BuildCalendar
    \/ Assemble
    \/ SaveDraft
    \/ PrintCreated
    \/ Logout

SpecBatch == InitBatch /\ [][NextBatch]_vars


\* a run of process_template_mode that takes its next step as long as it has
\* one: the interpreter does not stop between two statements
SpecBatchLive == SpecBatch /\ WF_vars(NextBatch)

(***************************************************************************)
(* Specification SpecResolve: the metadata block of a batch resolved for   *)
(* one record after the other, as the for loop of process_template_mode    *)
(* does.                                                                   *)
(***************************************************************************)
\* a call that resolves into the dict it was given
ResolveCallInPlace(meta, rec) ==
    LET r == render_metadata_templates(meta, rec)
    IN  [rendered |-> r.rendered, warnings |-> r.warnings,
         metadata |-> r.rendered, record |-> rec]

\* rendered_metadata = render_metadata_templates(metadata, record): the
\* result, and the two dicts passed as the call leaves them; the function
\* fills a new dict and assigns to no key of its arguments
ResolveCall(meta, rec) ==
    LET r == render_metadata_templates(meta, rec)
    IN  [rendered |-> r.rendered, warnings |-> r.warnings,
         metadata |-> meta, record |-> rec]

\* the metadata blocks of the YAML documents, and a block with a field that
\* quotes another one
ResolveBlocks ==
    {YamlDocuments[doc] : doc \in DOMAIN YamlDocuments}
    \cup {[event_name |-> <<"{{", "event_name", "|", "Gala", "}}">>,
           timezone |-> <<"{{", "timezone", "}}">>,
           subject |-> <<"Re:", "{{", "event_name", "}}">>],
          [event_name |-> <<"Gala">>, timezone |-> <<"Re:", "{{", "event_name", "}}">>]}

InitResolve ==
    /\ pc = "for"
    /\ metadata \in ResolveBlocks
    /\ template_content = <<>>
    /\ context_records = <<>>
    /\ DedupeOutputsEmpty
    /\ RenderOutputsEmpty
    /\ NoFiles
    /\ BatchOutputsEmpty
    /\ folders = NoListing

\* one iteration: record is bound, the block is resolved for it
ResolveNext ==
    /\ pc = "for"
    /\ Len(log) < MaxRenders
    /\ \E rec \in RenderRecords :
          LET call == ResolveCall(metadata, rec)
          IN  /\ rendered_metadata' = call.rendered
              /\ warnings' = call.warnings
              /\ metadata' = call.metadata
              /\ record' = call.record
              /\ log' = Append(log, [op |-> "resolve", i |-> rec, res |-> call.rendered,
                                     block |-> metadata])
    /\ UNCHANGED <<pc, dedupeVars, template_content, render_context, rendered_content,
                   template_file, context_file, imap, idx, html_content,
                   plain_content, folders, ics_content, draft_email, mailbox,
                   error>>

NextResolve == ResolveNext

SpecResolve == InitResolve /\ [][NextResolve]_vars

(***************************************************************************)
(* Specification SpecPlain: html_to_plain_text applied to a text and then  *)
(* to its own result.                                                      *)
(***************************************************************************)
\* pieces of markup: the tags the reducer knows, another tag, an attribute,
\* stray angle brackets, a letter and white space
HtmlFragments ==
    {<<"<", "b", "r", ">">>, <<"<", "p", ">">>, <<"<", "/", "p", ">">>,
     <<"<", "h", "1", ">">>, <<"<", "/", "h", "1", ">">>, <<"<", "l", "i", ">">>,
     <<"<", "b", ">">>, <<"<">>, <<">">>, <<"b">>, <<"\n">>, <<" ">>}

RECURSIVE Flatten(_)
Flatten(seqs) == IF seqs = <<>> THEN <<>> ELSE Head(seqs) \o Flatten(Tail(seqs))

HtmlInputs == {Flatten(f) : f \in StringsUpTo(HtmlFragments, MaxHtmlLen)}

InitPlain ==
    /\ pc = "plain_call"
    /\ html_content \in HtmlInputs
    /\ plain_content = <<>>
    /\ folders = NoListing
    /\ context_records = <<>>
    /\ DedupeOutputsEmpty
    /\ metadata = EmptyDict
    /\ template_content = <<>>
    /\ RenderOutputsEmpty
    /\ NoFiles
    /\ imap = "none"
    /\ idx = 0
    /\ ics_content = <<>>
    /\ draft_email = NoMessage
    /\ mailbox = <<>>
    /\ log = <<>>
    /\ error = "none"

\* plain_content = html_to_plain_text(html_content), first of the text given
\* and then of the result of the first call
HtmlToPlainText ==
    /\ pc \in {"plain_call", "plain_return"}
    /\ LET arg == IF pc = "plain_call" THEN html_content ELSE plain_content
       IN  /\ html_content' = arg
           /\ plain_content' = html_to_plain_text(arg)
    /\ pc' = IF pc = "plain_call" THEN "plain_return" ELSE "plain_again"
    /\ UNCHANGED <<dedupeVars, renderVars, template_file, context_file, imap,
                   idx, folders, ics_content, draft_email, mailbox, log, error>>

NextPlain == HtmlToPlainText

SpecPlain == InitPlain /\ [][NextPlain]_vars

(***************************************************************************)
(* Specification SpecDraft: one call of create_draft_email followed by one *)
(* call of save_draft_to_imap.                                             *)
(***************************************************************************)
DraftBodies == {Flatten(f) : f \in StringsUpTo(HtmlFragments, MaxBodyFragments)}

DraftRecipients == {EmptyDict, [email |-> <<"a">>]}

DraftMetadata ==
    {EmptyDict, [event_name |-> <<"Gala">>],
     [event_name |-> <<"Gala">>, subject |-> <<"Re:", "Gala">>]}

InitDraft ==
    /\ pc = "assemble_call"
    /\ html_content \in DraftBodies
    /\ record \in DraftRecipients
    /\ rendered_metadata \in DraftMetadata
    /\ ics_content \in {create_ics_file(rendered_metadata, now).ics : now \in Clock}
    /\ folders \in FolderListings
    /\ plain_content = <<>>
    /\ draft_email = NoMessage
    /\ mailbox = <<>>
    /\ log = <<>>
    /\ error = "none"
    /\ imap = "logged_in"
    /\ idx = 0
    /\ metadata = EmptyDict
    /\ template_content = <<>>
    /\ warnings = {}
    /\ render_context = EmptyDict
    /\ rendered_content = <<>>
    /\ context_records = <<>>
    /\ DedupeOutputsEmpty
    /\ NoFiles

\* draft_email = create_draft_email(config, recipient_email, subject, html_content, ics_content)
CreateDraftEmail ==
    /\ pc = "assemble_call"
    /\ \E now \in Clock :
          draft_email' = create_draft_email(Config, RecipientEmail(record),
                                            DraftSubject(rendered_metadata),
                                            html_content, ics_content, now)
    /\ plain_content' = html_to_plain_text(html_content)
    /\ pc' = "assemble_return"
    /\ UNCHANGED <<dedupeVars, renderVars, template_file, context_file, imap,
                   idx, html_content, folders, ics_content, mailbox, log, error>>

\* save_draft_to_imap(imap_conn, draft_email): the append returns OK, returns NO, or raises
SaveDraftToImap ==
    /\ pc = "assemble_return"
    /\ \E outcome \in AppendOutcomes :
          LET r == save_draft_to_imap(folders, outcome, mailbox, draft_email, idx)
          IN  /\ mailbox' = r.drafts
              /\ log' = log \o r.calls \o PrintedEvents(r.printed, idx)
              /\ error' = r.raised
              /\ pc' = IF r.raised = "none" THEN "save_return" ELSE "save_raised"
    /\ UNCHANGED <<dedupeVars, renderVars, template_file, context_file, imap,
                   idx, html_content, plain_content, folders, ics_content,
                   draft_email>>

NextDraft == CreateDraftEmail \/ SaveDraftToImap

SpecDraft == InitDraft /\ [][NextDraft]_vars

(***************************************************************************)
(* Specification SpecCalendar: one call of create_ics_file.                *)
(***************************************************************************)
\* a dict with the one entry key: value
Entry(key, value) == [k \in {key} |-> value]

\* values of the four fields create_ics_file reads: absent, literals, for
\* the date two literals strptime rejects and a YAML timestamp, for the
\* timezone a zone pytz does not know, two unrendered markers and null
CalendarNames == {EmptyDict} \cup {Entry("event_name", v) : v \in {<<"Gala">>, <<"Test", "Event">>}}

CalendarDates ==
    {EmptyDict}
    \cup {Entry("event_date", v) :
             v \in ParsableDates \cup {<<"invalid-date-format">>, <<"2023-12-01">>,
                                       <<"<datetime>", "2023-12-01 10:00:00">>}}

CalendarLocations == {EmptyDict} \cup {Entry("event_location", v) : v \in {<<"Room", "A">>}}

CalendarTimezones ==
    {EmptyDict}
    \cup {Entry("timezone", v) :
             v \in KnownTimezones
                   \cup {<<"Nowhere/Place">>, <<"{{", "timezone", "}}">>,
                         <<"{{", "timezone", "|", "UTC", "}}">>,
                         <<"<NoneType>", "None">>}}

CalendarBlocks ==
    {Update(Update(Update(n, d), l), t) :
        n \in CalendarNames, d \in CalendarDates,
        l \in CalendarLocations, t \in CalendarTimezones}

InitCalendar ==
    /\ pc = "ics_call"
    /\ metadata \in CalendarBlocks
    /\ template_content = <<>>
    /\ context_records = <<>>
    /\ DedupeOutputsEmpty
    /\ RenderOutputsEmpty
    /\ NoFiles
    /\ BatchOutputsEmpty
    /\ folders = NoListing

\* create_ics_file(metadata), called while datetime.now() is now
CreateIcsFile ==
    /\ pc = "ics_call"
    /\ \E now \in Clock :
          LET r == create_ics_file(metadata, now)
          IN  /\ ics_content' = r.ics
              /\ log' = PrintedEvents(r.printed, 0)
              /\ error' = r.raised
              /\ pc' = IF r.raised = "none" THEN "ics_return" ELSE "ics_raised"
    /\ UNCHANGED <<dedupeVars, renderVars, template_file, context_file, imap,
                   idx, html_content, plain_content, folders, draft_email,
                   mailbox>>

NextCalendar == CreateIcsFile

SpecCalendar == InitCalendar /\ [][NextCalendar]_vars


(***************************************************************************)
(* Specification SpecTest: one call of test_imap_settings.                 *)
(***************************************************************************)
\* the arguments of the test command
TestEmails == {<<"a">>, <<"recipient@example.com">>}

TestSubjects == {<<>>, <<"Test", " ", "Subject">>}

TestMessages == {<<>>, <<"Test", " ", "message">>, <<"line1", "\n", "line2">>}

InitTest ==
    /\ pc = "test_connect"
    /\ record \in {[email |-> e, subject |-> s, message_content |-> m] :
                      e \in TestEmails, s \in TestSubjects, m \in TestMessages}
    /\ folders \in BatchListings
    /\ metadata = EmptyDict
    /\ template_content = <<>>
    /\ rendered_metadata = EmptyDict
    /\ warnings = {}
    /\ render_context = EmptyDict
    /\ rendered_content = <<>>
    /\ context_records = <<>>
    /\ DedupeOutputsEmpty
    /\ NoFiles
    /\ BatchOutputsEmpty

\* imap_conn = imaplib.IMAP4_SSL(...), inside the try block
TestConnect ==
    /\ pc = "test_connect"
    /\ \E ok \in BOOLEAN :
          IF ok
          THEN /\ imap' = "connected"
               /\ log' = Append(log, Event("connect", 0, "OK"))
               /\ pc' = "test_login"
               /\ UNCHANGED error
          ELSE /\ log' = Append(log, Event("connect", 0, "raise"))
               /\ pc' = "test_except"
               /\ error' = "OSError"
               /\ UNCHANGED imap
    /\ UNCHANGED <<dedupeVars, renderVars, template_file, context_file, idx,
                   html_content, plain_content, folders, ics_content,
                   draft_email, mailbox>>

\* imap_conn.login(...), inside the try block
TestLogin ==
    /\ pc = "test_login"
    /\ \E ok \in BOOLEAN :
          IF ok
          THEN /\ imap' = "logged_in"
               /\ log' = Append(log, Event("login", 0, "OK"))
               /\ pc' = "test_draft"
               /\ UNCHANGED error
          ELSE /\ log' = Append(log, Event("login", 0, "raise"))
               /\ pc' = "test_except"
               /\ error' = "IMAP4.error"
               /\ UNCHANGED imap
    /\ UNCHANGED <<dedupeVars, renderVars, template_file, context_file, idx,
                   html_content, plain_content, folders, ics_content,
                   draft_email, mailbox>>

\* the rest of the try block: build msg, save_draft_to_imap, logout, the
\* success lines and return True; an exception goes to the except clause
TestDraft ==
    /\ pc = "test_draft"
    /\ \E outcome \in AppendOutcomes, now \in Clock :
          LET r == test_imap_settings_draft(Config, record.email, record.subject,
                                            record.message_content, folders,
                                            outcome, mailbox, now)
          IN  IF r.raised # "none"
              THEN /\ pc' = "test_except"
                   /\ error' = r.raised
                   /\ UNCHANGED <<imap, draft_email, mailbox, log>>
              ELSE /\ draft_email' = r.message
                   /\ mailbox' = r.drafts
                   /\ imap' = IF r.logout THEN "logged_out" ELSE imap
                   /\ log' = log \o r.calls \o PrintedEvents(r.printed, 0)
                                 \o <<Event("logout", 0, "OK"), Event("return", 0, "True")>>
                   /\ pc' = "test_return"
                   /\ UNCHANGED error
    /\ UNCHANGED <<dedupeVars, renderVars, template_file, context_file, idx,
                   html_content, plain_content, folders, ics_content>>

\* except Exception: print the failure and return False
TestExcept ==
    /\ pc = "test_except"
    /\ log' = log \o <<Event("print", 0, "IMAP test failed"),
                       Event("return", 0, "False")>>
    /\ pc' = "test_return"
    /\ UNCHANGED <<dedupeVars, renderVars, template_file, context_file, imap,
                   idx, html_content, plain_content, folders, ics_content,
                   draft_email, mailbox, error>>

NextTest == TestConnect \/ TestLogin \/ TestDraft \/ TestExcept

SpecTest == InitTest /\ [][NextTest]_vars


(***************************************************************************)
(* Specification SpecFolders: one call of find_drafts_folder.              *)
(***************************************************************************)
\* lines of an answer to LIST: quoted names, names without quotes after NIL
\* or after a quoted delimiter, a name with a space, the None of a server
\* without folders and an empty line
FolderLines ==
    {FolderLine(<<"INBOX">>, TRUE),
     FolderLine(<<"Draft", "s">>, TRUE),
     FolderLine(<<"My", " ", "DRAFT", "s">>, TRUE),
     FolderLine(<<"Sent">>, FALSE),
     FolderLine(<<"INBOX", ".", "Brouillon", "s">>, FALSE),
     FolderLineAtom(".", <<"INBOX", ".", "bozza">>),
     <<"<NoneType>", "None">>,
     <<>>}

ListStatuses == {"OK", "NO", "raise"}

InitFolders ==
    /\ pc = "list_call"
    /\ folders \in {ListResponse(s, l) :
                       s \in ListStatuses, l \in StringsUpTo(FolderLines, MaxFolders)}
    /\ context_records = <<>>
    /\ DedupeOutputsEmpty
    /\ metadata = EmptyDict
    /\ template_content = <<>>
    /\ RenderOutputsEmpty
    /\ NoFiles
    /\ BatchOutputsEmpty

\* drafts_folder = find_drafts_folder(imap_connection)
FindDraftsFolder ==
    /\ pc = "list_call"
    /\ LET r == find_drafts_folder(folders)
       IN  log' = <<Call("imap.list", 0, <<>>, <<>>, folders.status)>>
                  \o PrintedEvents(r.printed, 0)
                  \o <<Call("find_drafts_folder", 0, r.folder, <<>>, "return")>>
    /\ pc' = "list_return"
    /\ UNCHANGED <<dedupeVars, renderVars, template_file, context_file, imap,
                   idx, html_content, plain_content, folders, ics_content,
                   draft_email, mailbox, error>>

NextFolders == FindDraftsFolder

SpecFolders == InitFolders /\ [][NextFolders]_vars

(***************************************************************************)
(* C1, C10: properties of dedupe_records.                                  *)
(***************************************************************************)
\* the normalized recipient key as the specification states it: the email
\* field (empty when absent) between its first and last non-blank character,
\* lower-cased
RecipientKey(rec) ==
    LET s == Get(rec, "email", EmptyStr)
        nb == {i \in 1..Len(s) : s[i] \notin {" ", "\t", "\n"}}
        lo == CHOOSE i \in nb : \A j \in nb : i <= j
        hi == CHOOSE i \in nb : \A j \in nb : j <= i
    IN  IF nb = {} THEN <<>>
        ELSE [k \in 1..(hi - lo + 1) |-> LowerTok(s[lo + k - 1])]

\* positions of the input whose normalized email is non-empty and occurs at
\* no earlier position
FirstOccurrences(records) ==
    {i \in 1..Len(records) :
        /\ RecipientKey(records[i]) # EmptyStr
        /\ \A j \in 1..(i - 1) : RecipientKey(records[j]) # RecipientKey(records[i])}

\* C1: dedupe_records returns exactly the first record of every distinct
\* non-empty normalized email, in the original relative order, and no two
\* records of the output share a normalized email.
C1_DedupeFirstOccurrence ==
    pc = "dedupe_return" =>
        LET first == FirstOccurrences(context_records)
            rank(i) == Cardinality({j \in first : j <= i})
        IN  /\ Len(deduped_records) = Cardinality(first)
            /\ \A i \in first : deduped_records[rank(i)] = context_records[i]
            /\ \A a, b \in 1..Len(deduped_records) :
                   a # b => RecipientKey(deduped_records[a]) # RecipientKey(deduped_records[b])

\* a later record whose raw email differs from an earlier one only by case or
\* surrounding whitespace has been removed
C1_Witness ==
    /\ pc = "dedupe_return"
    /\ \E i, j \in 1..Len(context_records) :
          /\ i < j
          /\ "email" \in DOMAIN context_records[i]
          /\ "email" \in DOMAIN context_records[j]
          /\ context_records[i].email # context_records[j].email
          /\ RecipientKey(context_records[i]) = RecipientKey(context_records[j])
          /\ RecipientKey(context_records[i]) # EmptyStr
          /\ deduped_records = <<context_records[i]>>

\* C10: every input record is retained, skipped as a duplicate (one notice) or
\* dropped for an empty normalized email (never retained, no notice), so that
\* len(output) + duplicates_skipped + dropped_empty_email = len(input).
C10_DedupePartition ==
    pc = "dedupe_return" =>
        LET in == context_records
            empty == {i \in 1..Len(in) : RecipientKey(in[i]) = EmptyStr}
            first == FirstOccurrences(in)
            dups == (1..Len(in)) \ (empty \cup first)
            rank(i) == Cardinality({j \in dups : j <= i})
        IN  /\ Len(deduped_records) + Len(notices) + Cardinality(empty) = Len(in)
            /\ Len(notices) = Cardinality(dups)
            /\ \A i \in dups : notices[rank(i)].email = RecipientKey(in[i])
            /\ \A k \in 1..Len(deduped_records) : RecipientKey(deduped_records[k]) # EmptyStr
            /\ \A k \in 1..Len(notices) : notices[k].email # EmptyStr

\* a list holding a retained record, a duplicate and records dropped for a
\* missing and for a whitespace-only email
C10_Witness ==
    /\ pc = "dedupe_return"
    /\ Len(deduped_records) = 1
    /\ Len(notices) = 1
    /\ Len(context_records) = 3
    /\ \E i \in 1..Len(context_records) :
          \/ "email" \notin DOMAIN context_records[i]
          \/ /\ "email" \in DOMAIN context_records[i]
             /\ context_records[i].email = <<" ">>

(***************************************************************************)
(* C4, C5, C6: properties of render_template and render_metadata_templates.*)
(***************************************************************************)
\* a value that is a string and does not both start with "{{" and end with "}}"
ResolvedString(value) ==
    /\ value = <<>> \/ value[1] \notin {"<int>", "<NoneType>"}
    /\ ~(value # <<>> /\ Head(value) = "{{" /\ value[Len(value)] = "}}")

\* the resolver has returned for a block whose subject is "Re: {{ k }}", k
\* being another field of the block that the record does not override
SubjectQuotes(k) ==
    /\ pc = "resolve_return"
    /\ k # "subject"
    /\ k \in DOMAIN metadata
    /\ k \notin DOMAIN record
    /\ "subject" \in DOMAIN metadata
    /\ metadata["subject"] = <<"Re:", "{{", k, "}}">>

\* C4 as stated: a subject that references another metadata key k (not
\* overridden by the record) always interpolates the resolved value of k.
C4_SubjectInterpolatesResolved ==
    \A k \in MetadataKeys :
        SubjectQuotes(k) =>
            rendered_metadata["subject"] = <<"Re:">> \o PyStr(rendered_metadata[k])

\* C4 amended: the subject is rendered after the other fields and interpolates
\* the resolved value of k when that value is a string that does not both
\* start with "{{" and end with "}}"; a resolved value that is not a string or
\* still looks like a marker is not bound and renders as undefined (empty).
C4_SubjectInterpolatesResolvedStrings ==
    \A k \in MetadataKeys :
        SubjectQuotes(k) =>
            rendered_metadata["subject"] =
                <<"Re:">> \o (IF ResolvedString(rendered_metadata[k])
                              THEN rendered_metadata[k]
                              ELSE <<>>)

\* event_name "{{ event_name | default('Gala') }}", subject
\* "Re: {{ event_name }}", empty record: the subject is "Re: Gala"
C4_Witness ==
    /\ SubjectQuotes("event_name")
    /\ metadata["event_name"] = <<"{{", "event_name", "|", "Gala", "}}">>
    /\ record = EmptyDict
    /\ rendered_metadata["event_name"] = <<"Gala">>
    /\ rendered_metadata["subject"] = <<"Re:", "Gala">>

\* C5: the bindings of render_template are the metadata entries whose value is
\* a string that does not look like an unresolved marker, overridden by every
\* entry of the recipient context; a variable naming an unbound metadata
\* entry renders as empty.
C5_RenderBindings ==
    pc = "render_return" =>
        /\ DOMAIN render_context =
               DOMAIN record \cup {k \in DOMAIN metadata : ResolvedString(metadata[k])}
        /\ \A k \in DOMAIN render_context :
               render_context[k] = IF k \in DOMAIN record THEN record[k] ELSE metadata[k]
        /\ \A k \in DOMAIN metadata :
               (k \notin DOMAIN render_context /\ template_content = <<"{{", k, "}}">>)
                   => rendered_content = <<>>

\* a key bound by both sides prints the recipient's value, and a metadata
\* value that looks like a marker is unbound and prints as empty
C5_Witness ==
    /\ pc = "render_return"
    /\ "event_name" \in DOMAIN metadata /\ "event_name" \in DOMAIN record
    /\ metadata["event_name"] = <<"Gala">>
    /\ render_context["event_name"] = <<"Party">>
    /\ "timezone" \in DOMAIN metadata /\ "timezone" \notin DOMAIN record
    /\ metadata["timezone"] = <<"{{", "timezone", "}}">>
    /\ template_content = <<"{{", "timezone", "}}">>
    /\ rendered_content = <<>>

\* every "{{" of the template opens {{ name }} or {{ name | default(d) }}
WellFormed(tpl) ==
    \A i \in 1..Len(tpl) :
        tpl[i] = "{{" =>
            \/ /\ i + 2 <= Len(tpl)
               /\ tpl[i + 1] \notin {"{{", "}}", "}", "|", " "}
               /\ tpl[i + 2] = "}}"
            \/ /\ i + 4 <= Len(tpl)
               /\ tpl[i + 1] \notin {"{{", "}}", "}", "|", " "}
               /\ tpl[i + 2] = "|"
               /\ tpl[i + 3] \notin {"{{", "}}", "}", "|", " "}
               /\ tpl[i + 4] = "}}"

\* C6: render_metadata_templates returns normally; a string field whose
\* rendering raises keeps its raw string and gets a warning, every other
\* string field is resolved, and non-string values pass through unchanged.
C6_ResolverFallback ==
    pc \in {"resolve_return", "resolve_raised"} =>
        /\ pc = "resolve_return"
        /\ DOMAIN rendered_metadata = DOMAIN metadata
        /\ \A k \in DOMAIN metadata :
              LET raw == metadata[k]
                  isString == raw = <<>> \/ raw[1] \notin {"<int>", "<NoneType>"}
              IN  /\ ~isString => rendered_metadata[k] = raw /\ k \notin warnings
                  /\ (isString /\ ~WellFormed(raw)) =>
                         rendered_metadata[k] = raw /\ k \in warnings
                  /\ (isString /\ WellFormed(raw)) => k \notin warnings
                  /\ raw = <<"Gala">> => rendered_metadata[k] = <<"Gala">>
                  /\ (raw = <<"{{", "event_name", "|", "Gala", "}}">> /\ k # "subject") =>
                         rendered_metadata[k] = Get(record, "event_name", <<"Gala">>)

\* a block with a subject that fails to render, a field that renders and an
\* integer field
C6_Witness ==
    /\ pc = "resolve_return"
    /\ DOMAIN metadata = {"event_name", "subject", "timezone"}
    /\ metadata["subject"] = <<"{{", "}}">>
    /\ rendered_metadata["subject"] = <<"{{", "}}">>
    /\ warnings = {"subject"}
    /\ metadata["event_name"] = <<"{{", "event_name", "|", "Gala", "}}">>
    /\ rendered_metadata["event_name"] = <<"Gala">>
    /\ rendered_metadata["timezone"] = <<"<int>", "50">>

(***************************************************************************)
(* C9: the delimiter count load_content accepts.                           *)
(***************************************************************************)
\* positions of the delimiter token in the template source
DelimiterPositions == {i \in 1..Len(template_file) : template_file[i] = "---"}

\* load_content has returned or raised
ContentLoaded == pc \in {"load_context", "crashed"}

PipelineOps == {"resolve", "render", "ics", "assemble", "append"}

\* positions of the log at which step op of recipient i was taken
Steps(op, i) == {n \in 1..Len(log) : log[n].op = op /\ log[n].i = i}

\* positions of the log at which an append was attempted and failed
FailedAppends == {n \in 1..Len(log) : log[n].op = "append" /\ log[n].res # "OK"}

\* positions of the log at which an append returned OK
GoodAppends == {n \in 1..Len(log) : log[n].op = "append" /\ log[n].res = "OK"}

\* recipients of the Deduplicator output that pass the include filter
IncludedRecipients ==
    {i \in 1..Len(deduped_records) :
        \/ "include" \notin DOMAIN deduped_records[i]
        \/ deduped_records[i]["include"] \in {<<"TRUE">>, <<"true">>}}

\* part[name]: the value of the first header called name, None when there
\* is no such header
FirstHeader(part, name) ==
    LET at == {n \in 1..Len(part.headers) : part.headers[n].name = name}
    IN  IF at = {}
        THEN <<"<NoneType>", "None">>
        ELSE part.headers[CHOOSE n \in at : \A m \in at : n <= m].value

\* C2 as stated: after a failed append no later step of the pipeline is taken.
C2_AppendFailureFatal ==
    \A n \in FailedAppends :
        \A m \in 1..Len(log) : m > n => log[m].op \notin PipelineOps

\* C2 amended: a failed append (non-OK status or exception) is reported by
\* save_draft_to_imap and does not end the batch: the run never stops on it,
\* every included recipient gets its append attempt, and the Drafts folder
\* holds exactly the drafts whose append returned OK, in order.
C2_AppendFailureNotFatal ==
    /\ error # "IMAPError"
    /\ \A n \in FailedAppends : pc # "crashed" \/ n < Len(log)
    /\ pc = "done" => \A i \in IncludedRecipients : Steps("append", i) # {}
    /\ Len(mailbox) = Cardinality(GoodAppends)
    /\ \A n \in GoodAppends :
          FirstHeader(mailbox[Cardinality({m \in GoodAppends : m <= n})].message, "To")
              = Get(deduped_records[log[n].i], "email", <<"test@example.com">>)

\* a run that ended after an append that failed, followed by an append of a
\* later recipient that returned OK
C2_Witness ==
    /\ pc = "done"
    /\ \E n \in FailedAppends : \E m \in GoodAppends : n < m /\ log[n].i < log[m].i
    /\ \E n \in GoodAppends : \E m \in FailedAppends : n < m

\* C3: no rendering failure, the message body included, ends the batch.
C3_RenderFailureNotFatal ==
    /\ ~(pc = "crashed" /\ error = "TemplateSyntaxError")
    /\ pc \in {"done", "crashed"} /\ error \in {"none", "TemplateSyntaxError"} =>
           \A i \in IncludedRecipients : Steps("append", i) # {}

\* C7: recipients are handled one at a time in Deduplicator output order;
\* for each included recipient resolve precedes render and calendar build,
\* which precede assembly, which precedes the append; every step of a
\* recipient is complete before a step of the next one; one append attempt
\* per included recipient.
C7_SequentialPipeline ==
    /\ \A n, m \in 1..Len(log) :
          (n < m /\ log[n].op \in PipelineOps /\ log[m].op \in PipelineOps)
              => log[n].i <= log[m].i
    /\ \A n \in 1..Len(log) :
          log[n].op \in PipelineOps => log[n].i \in IncludedRecipients
    /\ \A i \in 1..Len(deduped_records) :
          /\ \A op \in PipelineOps : Cardinality(Steps(op, i)) <= 1
          /\ \A n \in Steps("render", i) \cup Steps("ics", i) :
                \E m \in Steps("resolve", i) : m < n
          /\ \A n \in Steps("assemble", i) :
                /\ \E m \in Steps("render", i) : m < n
                /\ \E m \in Steps("ics", i) : m < n
          /\ \A n \in Steps("append", i) :
                \E m \in Steps("assemble", i) : m < n
          /\ \A j \in IncludedRecipients :
                (j < i /\ \E op \in PipelineOps : Steps(op, i) # {})
                    => \A op \in PipelineOps : Steps(op, j) # {}
    /\ pc = "done" =>
          \A i \in IncludedRecipients :
              \A op \in PipelineOps : Cardinality(Steps(op, i)) = 1

\* a finished run over three recipients of which the second is excluded
C7_Witness ==
    /\ pc = "done"
    /\ Len(deduped_records) = 3
    /\ IncludedRecipients = {1, 3}
    /\ Steps("append", 1) # {} /\ Steps("append", 3) # {}
    /\ Steps("skip", 2) # {}

\* C8: a run that hits a configuration error (malformed front matter,
\* unsupported context format) stops there: no connection is opened and no
\* recipient is resolved, rendered, assembled or appended.
C8_ConfigErrorAborts ==
    error \in {"ValueError: unpack", "ValueError: unsupported format"} =>
        /\ pc = "crashed"
        /\ imap = "none"
        /\ idx = 0
        /\ log = <<>>
        /\ mailbox = <<>>

\* the context source has an unsupported extension: the run has stopped
\* after load_content succeeded
C8_Witness ==
    /\ pc = "crashed"
    /\ error = "ValueError: unsupported format"
    /\ context_file.ext = ".txt"
    /\ metadata # EmptyDict
    /\ imap = "none"

(***************************************************************************)
(* C11: the summary line of dedupe_records.                                *)
(***************************************************************************)
\* C11: the number of duplicates the summary reports equals the number of
\* per-duplicate notices: a record dropped for an empty or missing email is
\* not counted as a removed duplicate.
C11_SummaryCountsOnlyDuplicates ==
    pc = "dedupe_return" => summary.removed = Len(notices)

(***************************************************************************)
(* C12, C13: properties of create_ics_file.                                *)
(***************************************************************************)
\* the timezone and start literals create_ics_file is given, with the
\* documented defaults for absent keys
TimezoneLiteral == IF "timezone" \in DOMAIN metadata THEN metadata["timezone"] ELSE <<"UTC">>

StartLiteral ==
    IF "event_date" \in DOMAIN metadata
    THEN metadata["event_date"]
    ELSE <<"2023-12-01 10:00:00">>

\* both literals are strings
StringLiterals ==
    /\ (TimezoneLiteral = <<>> \/ TimezoneLiteral[1] \notin TypeTags)
    /\ (StartLiteral = <<>> \/ StartLiteral[1] \notin TypeTags)

\* the three recoverable conditions
TimezoneIsMarker ==
    /\ TimezoneLiteral # <<>>
    /\ TimezoneLiteral[1] = "{{"
    /\ TimezoneLiteral[Len(TimezoneLiteral)] = "}}"

TimezoneUnknown == ~TimezoneIsMarker /\ TimezoneLiteral \notin KnownTimezones

StartUnparsable == StartLiteral \notin ParsableDates

\* positions of the lines called name in the document returned
LinesNamed(name) == {n \in 1..Len(ics_content) : ics_content[n].name = name}

\* how many times line was printed
TimesPrinted(line) ==
    Cardinality({n \in 1..Len(log) : log[n].op = "print" /\ log[n].res = line})

\* the datetime of the DTSTART line
Start == ics_content[CHOOSE n \in LinesNamed("DTSTART") : TRUE].at

\* C12: when the timezone is an unrendered marker or unknown to the zone
\* database, or the start literal does not match the format, or both,
\* create_ics_file prints one warning per condition, uses UTC for the
\* timezone and the current time for the start, and returns a calendar
\* document without raising.
C12_CalendarFallbacks ==
    (pc \in {"ics_return", "ics_raised"} /\ StringLiterals) =>
        /\ pc = "ics_return"
        /\ error = "none"
        /\ Len(ics_content) >= 2
        /\ ics_content[1].name = "BEGIN:VCALENDAR"
        /\ ics_content[Len(ics_content)].name = "END:VCALENDAR"
        /\ Cardinality(LinesNamed("DTSTART")) = 1
        /\ TimesPrinted("Warning: Timezone not properly rendered")
              = IF TimezoneIsMarker THEN 1 ELSE 0
        /\ TimesPrinted("Warning: Unknown timezone") = IF TimezoneUnknown THEN 1 ELSE 0
        /\ TimesPrinted("Warning: Invalid date format") = IF StartUnparsable THEN 1 ELSE 0
        /\ (TimezoneIsMarker \/ TimezoneUnknown) => Start.tzinfo = "UTC"
        /\ StartUnparsable =>
              [day |-> Start.day, hour |-> Start.hour, minute |-> Start.minute] \in Clock

\* a call with an unknown timezone and an unparsable start: two warnings and
\* a document that starts now, in UTC
C12_Witness ==
    /\ pc = "ics_return"
    /\ TimezoneLiteral = <<"Nowhere/Place">>
    /\ StartLiteral = <<"invalid-date-format">>
    /\ TimesPrinted("Warning: Unknown timezone") = 1
    /\ TimesPrinted("Warning: Invalid date format") = 1
    /\ Start.tzinfo = "UTC"

\* C13: the document returned is BEGIN:VCALENDAR ... END:VCALENDAR around
\* exactly one VEVENT block, whose summary, location and start are
\* event_name, event_location and event_date in timezone, with 'Event',
\* 'TBD', '2023-12-01 10:00:00' and 'UTC' for absent keys; the wall-clock
\* fields of the start are those of the parsed literal.
C13_CalendarDocument ==
    pc = "ics_return" =>
        LET doc == ics_content
            one(name) == Cardinality(LinesNamed(name)) = 1
            at(name) == CHOOSE n \in LinesNamed(name) : TRUE
            inEvent(name) == at("BEGIN:VEVENT") < at(name) /\ at(name) < at("END:VEVENT")
            name == IF "event_name" \in DOMAIN metadata
                    THEN metadata["event_name"] ELSE <<"Event">>
            location == IF "event_location" \in DOMAIN metadata
                        THEN metadata["event_location"] ELSE <<"TBD">>
        IN  /\ \A n \in {"BEGIN:VCALENDAR", "END:VCALENDAR", "BEGIN:VEVENT",
                         "END:VEVENT", "SUMMARY", "DTSTART", "LOCATION"} : one(n)
            /\ at("BEGIN:VCALENDAR") = 1
            /\ at("END:VCALENDAR") = Len(doc)
            /\ at("BEGIN:VEVENT") < at("END:VEVENT")
            /\ \A n \in {"SUMMARY", "DTSTART", "LOCATION"} : inEvent(n)
            /\ doc[at("SUMMARY")].text = name
            /\ doc[at("LOCATION")].text = location
            /\ StartLiteral \in ParsableDates =>
                  /\ Start.day = Strptime[StartLiteral[1]].day
                  /\ Start.hour = Strptime[StartLiteral[1]].hour
                  /\ Start.minute = Strptime[StartLiteral[1]].minute
            /\ TimezoneLiteral \in KnownTimezones => Start.tzinfo = TimezoneLiteral[1]

\* a call that gives a start and a zone east of UTC and leaves the name and
\* the location to their defaults
C13_Witness ==
    /\ pc = "ics_return"
    /\ DOMAIN metadata = {"event_date", "timezone"}
    /\ metadata["timezone"] = <<"Europe/Paris">>
    /\ metadata["event_date"] = <<"2023-12-01 23:30:00">>
    /\ Start = Aware(1, 23, 30, "Europe/Paris")
    /\ ics_content[CHOOSE n \in LinesNamed("SUMMARY") : TRUE].text = <<"Event">>

(***************************************************************************)
(* C14, C15: properties of html_to_plain_text.                             *)
(***************************************************************************)
\* C14: the result of html_to_plain_text holds no '<' and no '>'.
C14_NoAngleBrackets ==
    pc \in {"plain_return", "plain_again"} =>
        \A i \in 1..Len(plain_content) : plain_content[i] \notin {"<", ">"}

\* C15: html_to_plain_text applied to one of its results returns that result.
C15_ReducerIdempotent ==
    pc = "plain_again" => plain_content = html_content

\* a result with a blank line and a bullet, reduced a second time
C15_Witness ==
    /\ pc = "plain_again"
    /\ plain_content = html_content
    /\ \E i \in 1..Len(plain_content) : plain_content[i] = BulletGlyph[1]
    /\ \E i \in 1..(Len(plain_content) - 1) :
          plain_content[i] = "\n" /\ plain_content[i + 1] = "\n"

(***************************************************************************)
(* C16, C17: properties of create_draft_email.                             *)
(***************************************************************************)
\* part.get_content_type() of a part whose first Content-Type header is
\* well formed: the main value of that header
ContentType(part) == FirstHeader(part, "Content-Type")[1]

\* the main value of the Content-Disposition header
Disposition(part) == FirstHeader(part, "Content-Disposition")[1]

\* a message has been assembled
Assembled == pc \in {"assemble_return", "save_return", "save_raised"}

\* C16: the outer payload of an assembled message is, in this order, the
\* multipart/alternative container, the attachment calendar part and the
\* inline calendar part; the container holds the text/plain part
\* (html_to_plain_text of the body) and then the text/html part
\* (wrap_html_for_email of the body); both calendar parts hold ics_content.
C16_MessageStructure ==
    Assembled =>
        LET parts == draft_email.payload
        IN  /\ Len(parts) = 3
            /\ ContentType(parts[1]) = "multipart/alternative"
            /\ Len(parts[1].payload) = 2
            /\ ContentType(parts[1].payload[1]) = "text/plain"
            /\ parts[1].payload[1].payload = html_to_plain_text(html_content)
            /\ ContentType(parts[1].payload[2]) = "text/html"
            /\ parts[1].payload[2].payload = wrap_html_for_email(html_content)
            /\ ContentType(parts[2]) = "text/calendar"
            /\ Disposition(parts[2]) = "attachment"
            /\ parts[2].payload = ics_content
            /\ ContentType(parts[3]) = "text/calendar"
            /\ Disposition(parts[3]) = "inline"
            /\ parts[3].payload = ics_content

\* a message whose body is a list item: the plain part holds the bullet,
\* the calendar parts the document
C16_Witness ==
    /\ pc = "assemble_return"
    /\ html_content = <<"<", "l", "i", ">">>
    /\ draft_email.payload[1].payload[1].payload = BulletGlyph
    /\ ics_content # <<>>
    /\ draft_email.payload[2].payload = ics_content

\* C17: the Content-Type a header lookup returns for the attachment
\* calendar part is text/calendar with the parameter method=REQUEST, its
\* Content-Disposition is attachment with filename invite.ics, and the
\* inline part has no filename.
C17_AttachmentHeaders ==
    Assembled =>
        LET attachment == draft_email.payload[2]
            inline == draft_email.payload[3]
            content_type == FirstHeader(attachment, "Content-Type")
        IN  /\ content_type[1] = "text/calendar"
            /\ \E k \in 1..Len(content_type) : content_type[k] = "method=REQUEST"
            /\ FirstHeader(attachment, "Content-Disposition")
                  = <<"attachment", "filename=invite.ics">>
            /\ FirstHeader(inline, "Content-Disposition") = <<"inline">>

(***************************************************************************)
(* C20: save_draft_to_imap.                                                *)
(***************************************************************************)
\* positions of the log at which an append was sent to the server
AppendCalls == {n \in 1..Len(log) : log[n].op = "imap.append"}

\* C20: save_draft_to_imap sends one append, to the folder find_drafts_folder
\* returns and with the flags \Draft \Seen, and returns without raising
\* whether the append returns OK, returns another status or raises; it
\* prints the success line only for OK and one failure line otherwise.
C20_SaveDraftOnce ==
    pc \in {"save_return", "save_raised"} =>
        /\ pc = "save_return"
        /\ error = "none"
        /\ Cardinality(AppendCalls) = 1
        /\ \A n \in AppendCalls :
              /\ log[n].folder = find_drafts_folder(folders).folder
              /\ log[n].flags = <<"\\Draft", "\\Seen">>
              /\ TimesPrinted("Draft saved") = IF log[n].res = "OK" THEN 1 ELSE 0
              /\ TimesPrinted("Failed to save draft") + TimesPrinted("Error saving draft")
                    = IF log[n].res = "OK" THEN 0 ELSE 1
              /\ Len(mailbox) = IF log[n].res = "OK" THEN 1 ELSE 0
              /\ log[n].res = "OK" =>
                    /\ mailbox[1].folder = log[n].folder
                    /\ mailbox[1].message = draft_email

\* an append to a listed INBOX.Brouillons that raised: the error is printed,
\* nothing is stored and the function has returned
C20_Witness ==
    /\ pc = "save_return"
    /\ mailbox = <<>>
    /\ TimesPrinted("Error saving draft") = 1
    /\ \E n \in AppendCalls :
          /\ log[n].res = "raise"
          /\ log[n].folder = <<"INBOX", ".", "Brouillon", "s">>

WithField(block, j, value) ==
    [k \in DOMAIN block \cup {j} |-> IF k = j THEN value ELSE block[k]]

WithoutField(block, j) == [k \in DOMAIN block \ {j} |-> block[k]]

\* C19: a string field other than subject resolves with the fields of the
\* record as its only bindings: a reference to a metadata key the record
\* does not define is undefined, and the resolved value is the same
\* whatever the other fields of the block are.
C19_FirstPassRecordOnly ==
    pc = "resolve_return" =>
        \A k \in DOMAIN metadata \ {"subject"} :
            (metadata[k] = <<>> \/ metadata[k][1] \notin {"<int>", "<NoneType>"}) =>
                /\ WellFormed(metadata[k]) =>
                      rendered_metadata[k] = JinjaRender(metadata[k], 1, record, <<>>).out
                /\ \A j \in MetadataKeys \ {k} :
                      /\ render_metadata_templates(WithoutField(metadata, j),
                                                   record).rendered[k]
                            = rendered_metadata[k]
                      /\ \A v \in MetadataValues :
                            render_metadata_templates(WithField(metadata, j, v),
                                                      record).rendered[k]
                                = rendered_metadata[k]

\* a field that quotes another field of the block, resolved for a record
\* that does not define it: nothing is interpolated
C19_Witness ==
    /\ pc = "resolve_return"
    /\ DOMAIN metadata = {"event_name", "timezone"}
    /\ metadata["timezone"] = <<"Gala">>
    /\ metadata["event_name"] = <<"Re:", "{{", "timezone", "}}">>
    /\ "timezone" \notin DOMAIN record
    /\ rendered_metadata["event_name"] = <<"Re:">>

(***************************************************************************)
(* C21: test_imap_settings.                                                *)
(***************************************************************************)
\* the value test_imap_settings returned
Returned(value) == \E n \in 1..Len(log) : log[n].op = "return" /\ log[n].res = value

\* how many times step op was taken with result res
TimesDone(op, res) ==
    Cardinality({n \in 1..Len(log) : log[n].op = op /\ log[n].res = res})

\* C21: test_imap_settings returns True whenever connecting, logging in and
\* saving the draft all succeed, and then the test draft was handed to
\* save_draft_to_imap once and logout was called once; it returns False
\* when connecting or logging in raises.
C21_TestSettingsResult ==
    pc = "test_return" =>
        /\ (TimesDone("connect", "raise") + TimesDone("login", "raise") > 0)
               => Returned("False")
        /\ (/\ TimesDone("connect", "OK") = 1
            /\ TimesDone("login", "OK") = 1
            /\ TimesDone("imap.append", "NO") + TimesDone("imap.append", "raise") = 0)
               => /\ Returned("True")
                  /\ Cardinality({n \in 1..Len(log) : log[n].op = "imap.append"}) = 1
                  /\ TimesDone("logout", "OK") = 1

(***************************************************************************)
(* C22: find_drafts_folder.                                                *)
(***************************************************************************)
\* the mailbox name of a LIST line, which is its last element: the text
\* between the last two quotes when the line ends with a quote, the text
\* after the last space otherwise
ListedName(line) ==
    LET n == Len(line)
        quotes == {k \in 1..(n - 1) : line[k] = "\""}
        spaces == {k \in 1..n : line[k] = " "}
        last(S) == IF S = {} THEN 0 ELSE CHOOSE k \in S : \A j \in S : j <= k
    IN  IF line[n] = "\""
        THEN SubSeq(line, last(quotes) + 1, n - 1)
        ELSE SubSeq(line, last(spaces) + 1, n)

\* the name holds draft, brouillon or bozza in any case
NamesDrafts(name) ==
    \E k \in 1..Len(name) :
        name[k] \in {"draft", "Draft", "DRAFT", "brouillon", "Brouillon", "bozza"}

\* the lines of the answer are all folder lines
FolderLinesOnly ==
    \A k \in 1..Len(folders.lines) :
        /\ folders.lines[k] # <<>>
        /\ folders.lines[k][1] \notin TypeTags

\* the folder find_drafts_folder returned
FolderFound == log[Len(log)].folder

\* C22: find_drafts_folder returns the name of the first listed folder whose
\* name holds one of the drafts synonyms in any case, whether the name is
\* quoted or not; it returns 'Drafts' when no listed folder matches, when
\* the status is not OK and when listing raises; it never raises.
C22_FirstDraftsFolder ==
    pc = "list_return" =>
        /\ error = "none"
        /\ log[Len(log)].op = "find_drafts_folder"
        /\ folders.status # "OK" => FolderFound = <<"Drafts">>
        /\ (folders.status = "OK" /\ FolderLinesOnly) =>
              LET matching == {k \in 1..Len(folders.lines) :
                                  NamesDrafts(ListedName(folders.lines[k]))}
              IN  IF matching = {}
                  THEN FolderFound = <<"Drafts">>
                  ELSE FolderFound =
                           ListedName(folders.lines[CHOOSE k \in matching :
                                                        \A j \in matching : k <= j])

(***************************************************************************)
(* C23: the include filter of process_template_mode.                       *)
(***************************************************************************)
\* the run is over and was not ended by an error of another step
RunOverAfterFilter == pc \in {"done", "crashed"} /\ error \in {"none", "AttributeError"}

\* C23: a record of the Deduplicator output is processed (one append) if and
\* only if it has no include field or its include value upper-cased is
\* 'TRUE'; any other record is skipped with a notice, no resolve, assemble
\* or append step runs for it, and the records after it are processed.
C23_IncludeFilter ==
    RunOverAfterFilter =>
        \A i \in 1..Len(deduped_records) :
            IF i \in IncludedRecipients
            THEN Cardinality(Steps("append", i)) = 1
            ELSE /\ Cardinality(Steps("skip", i)) = 1
                 /\ \A op \in PipelineOps : Steps(op, i) = {}

(***************************************************************************)
(* C24: process_template_mode without a context source.                    *)
(***************************************************************************)
\* C24: when no context source is given the context loader is not called
\* and exactly one recipient, the empty record, is processed: one draft is
\* appended, addressed to the default address of the configuration
\* ('test@example.com' when none is configured).
C24_NoContextOneDraft ==
    (~context_file.given /\ pc = "done") =>
        /\ context_records = <<[k \in {} |-> <<>>]>>
        /\ Cardinality({n \in 1..Len(log) : log[n].op = "append"}) = 1
        /\ FirstHeader(draft_email, "To") = <<"test@example.com">>

(***************************************************************************)
(* C25: dedupe_records on records whose email is not a string.             *)
(***************************************************************************)
\* the email of the record is a string, or the record has none
StringEmail(rec) ==
    "email" \in DOMAIN rec => (rec["email"] = <<>> \/ rec["email"][1] \notin TypeTags)

\* the recipient key, empty for an email that is not a string
KeyOrEmpty(rec) == IF StringEmail(rec) THEN RecipientKey(rec) ELSE <<>>

\* C25: dedupe_records returns normally for every list of records; a record
\* whose email is null or another non-string scalar counts as having an
\* empty email and is dropped, and the other records are deduplicated as
\* usual.
C25_DedupeTotal ==
    pc \in {"dedupe_return", "dedupe_raised"} =>
        LET in == context_records
            first == {i \in 1..Len(in) :
                         /\ KeyOrEmpty(in[i]) # <<>>
                         /\ \A j \in 1..(i - 1) : KeyOrEmpty(in[j]) # KeyOrEmpty(in[i])}
            rank(i) == Cardinality({j \in first : j <= i})
        IN  /\ pc = "dedupe_return"
            /\ error = "none"
            /\ Len(deduped_records) = Cardinality(first)
            /\ \A i \in first : deduped_records[rank(i)] = in[i]

(***************************************************************************)
(* C26: create_ics_file on values the resolver passes through.             *)
(***************************************************************************)
\* the block is one render_metadata_templates returns: resolving it again
\* for a record without fields leaves it as it is
ResolverOutput == render_metadata_templates(metadata, EmptyDict).rendered = metadata

\* C26: for every resolved metadata block, a timezone or event_date that is
\* not a string included, create_ics_file returns a calendar document
\* without raising; it uses UTC for a timezone and the current time for a
\* date that cannot be used.
C26_CalendarTotal ==
    (pc \in {"ics_return", "ics_raised"} /\ ResolverOutput) =>
        /\ pc = "ics_return"
        /\ error = "none"
        /\ Cardinality(LinesNamed("BEGIN:VCALENDAR")) = 1
        /\ Cardinality(LinesNamed("DTSTART")) = 1
        /\ TimezoneLiteral[1] \in TypeTags => Start.tzinfo = "UTC"
        /\ StartLiteral[1] \in TypeTags =>
              [day |-> Start.day, hour |-> Start.hour, minute |-> Start.minute] \in Clock

(***************************************************************************)
(* C27: the header fields of an assembled message.                         *)
(***************************************************************************)
\* how many headers of the part are called name
HeaderCount(part, name) ==
    Cardinality({n \in 1..Len(part.headers) : part.headers[n].name = name})

\* C27: in an assembled message the outer part has exactly one MIME-Version
\* and one Content-Type header, each calendar part has exactly one
\* Content-Type, one Content-Transfer-Encoding and one Content-Disposition
\* header, and no header name occurs twice in a part.
C27_HeadersOncePerPart ==
    Assembled =>
        LET parts == draft_email.payload
            all == <<draft_email, parts[1], parts[1].payload[1], parts[1].payload[2],
                     parts[2], parts[3]>>
        IN  /\ HeaderCount(draft_email, "MIME-Version") = 1
            /\ HeaderCount(draft_email, "Content-Type") = 1
            /\ \A k \in {2, 3} :
                  /\ HeaderCount(parts[k], "Content-Type") = 1
                  /\ HeaderCount(parts[k], "Content-Transfer-Encoding") = 1
                  /\ HeaderCount(parts[k], "Content-Disposition") = 1
            /\ \A p \in 1..Len(all) :
                  \A n \in 1..Len(all[p].headers) :
                      HeaderCount(all[p], all[p].headers[n].name) = 1

(***************************************************************************)
(* C28: the connection is logged out.                                      *)
(***************************************************************************)
\* C28: every run that has logged in to the mailbox eventually logs out,
\* the runs in which a later step raises included.
C28_LoginLeadsToLogout == (imap = "logged_in") ~> (imap = "logged_out")

(***************************************************************************)
(* C29: the messages that report success.                                  *)
(***************************************************************************)
\* C29: 'Draft email created for ...' is printed for a recipient only when
\* the append of that recipient returned OK, and 'All draft emails have been
\* created and saved to the IMAP server.' only when every append attempted
\* in the batch returned OK.
C29_SuccessOnlyWhenSaved ==
    /\ \A n \in 1..Len(log) :
          log[n].op = "created" =>
              \E m \in 1..(n - 1) :
                  log[m].op = "imap.append" /\ log[m].i = log[n].i /\ log[m].res = "OK"
    /\ \A n \in 1..Len(log) :
          log[n].op = "all_created" =>
              \A m \in 1..Len(log) : log[m].op = "imap.append" => log[m].res = "OK"

(***************************************************************************)
(* C30: deduplication comes before the include filter.                     *)
(***************************************************************************)
\* positions of the log at which a draft was appended for the address key
DraftsFor(key) ==
    {n \in 1..Len(log) :
        log[n].op = "append" /\ RecipientKey(deduped_records[log[n].i]) = key}

\* the first record of the context that carries the address key
FirstCarrier(key) ==
    context_records[CHOOSE j \in 1..Len(context_records) :
                        /\ RecipientKey(context_records[j]) = key
                        /\ \A h \in 1..(j - 1) : RecipientKey(context_records[h]) # key]

\* the addresses of the context
ContextKeys ==
    {RecipientKey(context_records[j]) : j \in 1..Len(context_records)} \ {<<>>}

\* C30: no address gets more than one draft in a batch, and in a run that
\* reaches its end an address gets a draft if and only if the first input
\* record carrying it is included; a later record with the same address
\* and include TRUE does not yield a draft when the first one is excluded.
C30_DedupeBeforeFilter ==
    /\ \A key \in ContextKeys : Cardinality(DraftsFor(key)) <= 1
    /\ pc = "done" =>
          \A key \in ContextKeys :
              DraftsFor(key) # {}
                  <=> \/ "include" \notin DOMAIN FirstCarrier(key)
                      \/ FirstCarrier(key)["include"] \in {<<"TRUE">>, <<"true">>}

\* a finished run over an excluded address, the same address with include
\* TRUE and another address: one draft, for the other address
C30_Witness ==
    /\ pc = "done"
    /\ Len(context_records) = 3
    /\ context_records[1] = [email |-> <<"b">>, first_name |-> <<"Bob">>,
                             include |-> <<"FALSE">>]
    /\ context_records[2] = [email |-> <<"b">>, include |-> <<"TRUE">>]
    /\ DraftsFor(<<"b">>) = {}
    /\ Cardinality(DraftsFor(<<"c">>)) = 1
    /\ Steps("skip", 1) # {}

====
